---------------------------- MODULE Spec2Model ----------------------------
(***************************************************************************)
(* A model of bareASGI-rest: the argument binder (arg_builder.make_args),  *)
(* the route callback built by RestHttpRouter._add_method, and the typed   *)
(* JSON / XML deserialization engines it relies on.                        *)
(*                                                                         *)
(* Python values are tagged records, texts are sequences of one-character  *)
(* strings, a raised exception is a record with the fields exc and args.   *)
(***************************************************************************)
EXTENDS Integers, Sequences, FiniteSets, TLC

VARIABLES
    route,        \* the registered route: method, path variables, signature, ...
    request,      \* the request being served: matches, query string, content type
    pc,           \* position of rest_callback: idle, await_body, await_handler, done
    frame,        \* make_args' locals while it is suspended: idx, args, kwargs
    bound,        \* what make_args returned or raised ("pending" before)
    body_reads,   \* number of times body_reader was invoked for this request
    body_results, \* what each completed body read returned or raised
    handler_calls,\* number of times the user callback was invoked
    handler_result,   \* what the user callback returned or raised
    accept,       \* the Accept header, once rest_callback has read it
    serializer_calls, \* number of times a produces serializer was invoked
    response,     \* what rest_callback returned or raised ("pending" before)
    dz,           \* the deserialization engines: an input and what each made of it
    tasks         \* two requests served at once: each rest_callback's own state

vars == <<route, request, pc, frame, bound, body_reads, body_results,
          handler_calls, handler_result, accept, serializer_calls, response, dz,
          tasks>>

router_vars == <<route, request, pc, frame, bound, body_reads, body_results,
                 handler_calls, handler_result, accept, serializer_calls,
                 response, tasks>>

-----------------------------------------------------------------------------
(* Bounds of the model *)

\* longest multi-value list of one query-string key
MaxQueryLen == 2

\* most keys of a JSON object handed to the engines
MaxKeys == 2

-----------------------------------------------------------------------------
(* Python values *)

None == [t |-> "None"]
VStr(s) == [t |-> "str", s |-> s]
VInt(i) == [t |-> "int", i |-> i]
VBool(b) == [t |-> "bool", b |-> b]
VDec(coef, exp) == [t |-> "Decimal", coef |-> coef, exp |-> exp]
VList(items) == [t |-> "list", items |-> items]
\* a dict: a function from its keys (texts) to its values
VDict(d) == [t |-> "dict", d |-> d]
\* Parameter.empty: no default
Empty == [t |-> "empty"]
\* a local variable that no statement has assigned yet
Unbound == [t |-> "unbound"]

\* a raised exception: its class and its args tuple
Raise(exc, eargs) == [exc |-> exc, args |-> eargs]
IsRaise(r) == "exc" \in DOMAIN r

\* an exception message, kept as a one-piece text
Msg(m) == VStr(<<m>>)

\* Python truthiness: "not value"
Falsy(v) ==
    CASE v.t = "None" -> TRUE
      [] v.t = "str" -> v.s = <<>>
      [] v.t = "int" -> v.i = 0
      [] v.t = "bool" -> ~v.b
      [] v.t = "Decimal" -> v.coef = 0
      [] v.t = "list" -> v.items = <<>>
      [] v.t = "dict" -> DOMAIN v.d = {}
      [] OTHER -> FALSE

-----------------------------------------------------------------------------
(* Texts *)

Digits == {"0", "1", "2", "3", "4", "5", "6", "7", "8", "9"}

DigitVal(c) ==
    CASE c = "0" -> 0 [] c = "1" -> 1 [] c = "2" -> 2 [] c = "3" -> 3
      [] c = "4" -> 4 [] c = "5" -> 5 [] c = "6" -> 6 [] c = "7" -> 7
      [] c = "8" -> 8 [] c = "9" -> 9

Upper == {"A", "B", "C", "N", "T", "R", "U", "E"}

lowercase(c) ==
    CASE c = "A" -> "a" [] c = "B" -> "b" [] c = "C" -> "c" [] c = "N" -> "n"
      [] c = "T" -> "t" [] c = "R" -> "r" [] c = "U" -> "u" [] c = "E" -> "e"
      [] OTHER -> c

uppercase(c) ==
    CASE c = "a" -> "A" [] c = "b" -> "B" [] c = "c" -> "C" [] c = "n" -> "N"
      [] c = "t" -> "T" [] c = "r" -> "R" [] c = "u" -> "U" [] c = "e" -> "E"
      [] OTHER -> c

\* str.lower()
Lower(s) == [i \in 1..Len(s) |-> lowercase(s[i])]

AllDigits(s) == \A i \in 1..Len(s) : s[i] \in Digits

RECURSIVE DigitsValue(_)
DigitsValue(s) ==
    IF s = <<>> THEN 0
    ELSE 10 * DigitsValue(SubSeq(s, 1, Len(s) - 1)) + DigitVal(s[Len(s)])

RECURSIVE Concat(_)
Concat(ss) == IF Len(ss) = 0 THEN <<>> ELSE Head(ss) \o Concat(Tail(ss))

\* int(text): an optional sign and at least one digit, else ValueError
PyInt(s) ==
    LET signed == Len(s) > 0 /\ s[1] \in {"-", "+"}
        digits == IF signed THEN Tail(s) ELSE s
    IN  IF digits # <<>> /\ AllDigits(digits)
        THEN VInt(IF signed /\ s[1] = "-" THEN 0 - DigitsValue(digits)
                 ELSE DigitsValue(digits))
        ELSE Raise("ValueError", <<Msg("invalid literal for int()")>>)

\* Decimal(text): digits with at most one point; otherwise
\* decimal.InvalidOperation, whose args hold a list of signal classes
PyDecimal(s) ==
    LET signed == Len(s) > 0 /\ s[1] \in {"-", "+"}
        body == IF signed THEN Tail(s) ELSE s
        points == {i \in 1..Len(body) : body[i] = "."}
        whole == IF points = {} THEN body
                 ELSE SubSeq(body, 1, (CHOOSE i \in points : TRUE) - 1)
        frac == IF points = {} THEN <<>>
                ELSE SubSeq(body, (CHOOSE i \in points : TRUE) + 1, Len(body))
    IN  IF Cardinality(points) <= 1 /\ AllDigits(whole) /\ AllDigits(frac)
           /\ Len(whole) + Len(frac) > 0
        THEN VDec((IF signed /\ s[1] = "-" THEN -1 ELSE 1)
                     * DigitsValue(whole \o frac), Len(frac))
        ELSE Raise("InvalidOperation", <<VList(<<Msg("ConversionSyntax")>>)>>)

-----------------------------------------------------------------------------
(* Key renamers of a SerializerConfig (stringcase) *)

Separators == {"-", "_", ".", " "}
Lowers == {"a", "b", "c", "n", "t", "r", "u", "e"}

\* stringcase.snakecase
snakecase(s) ==
    LET norm == [i \in 1..Len(s) |->
                    IF s[i] \in {"-", ".", " "} THEN "_" ELSE s[i]]
    IN  IF norm = <<>> THEN norm
        ELSE <<lowercase(norm[1])>> \o
             Concat([i \in 1..(Len(norm) - 1) |->
                        IF norm[i + 1] \in Upper
                        THEN <<"_", lowercase(norm[i + 1])>>
                        ELSE <<norm[i + 1]>>])

\* re.sub(r"[\-_\.\s]([a-z])", upper, rest): leftmost, non-overlapping
RECURSIVE CamelRest(_)
CamelRest(r) ==
    IF r = <<>> THEN <<>>
    ELSE IF Len(r) >= 2 /\ r[1] \in Separators /\ r[2] \in Lowers
         THEN <<uppercase(r[2])>> \o CamelRest(SubSeq(r, 3, Len(r)))
         ELSE <<r[1]>> \o CamelRest(Tail(r))

\* stringcase.camelcase
camelcase(s) ==
    LET cut == IF s # <<>> /\ s[1] \in {"-", "_", "."} THEN Tail(s) ELSE s
    IN  IF cut = <<>> THEN cut
        ELSE <<lowercase(cut[1])>> \o CamelRest(Tail(cut))

\* a renamer applied by its name; "identity" stands for a config without one
Rename(renamer, s) ==
    CASE renamer = "snakecase" -> snakecase(s)
      [] renamer = "camelcase" -> camelcase(s)
      [] OTHER -> s

SerializerConfig(serialize_key, deserialize_key) ==
    [serialize_key |-> serialize_key, deserialize_key |-> deserialize_key]

DEFAULT_JSON_SERIALIZER_CONFIG == SerializerConfig("camelcase", "snakecase")

-----------------------------------------------------------------------------
(* Type annotations *)

TStr == [k |-> "str"]
TInt == [k |-> "int"]
TBool == [k |-> "bool"]
TDecimal == [k |-> "Decimal"]
TDatetime == [k |-> "datetime"]
NoneType == [k |-> "NoneType"]
TUnion(targs) == [k |-> "Union", args |-> targs]
TOptional(T) == TUnion(<<T, NoneType>>)
TList(T) == [k |-> "List", args |-> <<T>>]
TAnnotated(T, metadata) ==
    [k |-> "Annotated", args |-> <<T>>, metadata |-> metadata]

\* a member of a typed dict: default is Empty when the class assigns none
TypedDictMember(name, annotation, default) ==
    [name |-> name, annotation |-> annotation, default |-> default]

\* a TypedDict class: its members in declaration order
TypedDict(name, members) ==
    [k |-> "TypedDict", name |-> name, members |-> members]

typed_dict_annotation(obj) == obj.members

\* wire metadata attached to an annotation
JSONValue == [cls |-> "JSONValue", serialization |-> TRUE]
JSONProperty(tag) == [cls |-> "JSONProperty", serialization |-> TRUE, tag |-> tag]
XMLEntity(tag) == [cls |-> "XMLEntity", serialization |-> TRUE, tag |-> tag]
XMLAttribute(tag) ==
    [cls |-> "XMLAttribute", serialization |-> TRUE, tag |-> tag]
\* metadata that is no serialization annotation (documentation, validation)
OtherMetadata == [cls |-> "Other", serialization |-> FALSE]

is_simple_type(annotation) ==
    annotation.k \in {"str", "bool", "int", "float", "Decimal", "datetime",
                      "timedelta"}

is_annotated_type(annotation) == annotation.k = "Annotated"

is_union_type(annotation) == annotation.k = "Union"

is_list(annotation) == annotation.k = "List"

is_typed_dict(annotation) == annotation.k = "TypedDict"

get_args(annotation) ==
    IF "args" \in DOMAIN annotation THEN annotation.args ELSE <<>>

\* NoneType, or a union one of whose members is optional
RECURSIVE is_optional_type(_)
is_optional_type(annotation) ==
    IF annotation.k = "NoneType" THEN TRUE
    ELSE IF is_union_type(annotation)
         THEN \E i \in 1..Len(annotation.args) :
                  is_optional_type(annotation.args[i])
         ELSE FALSE

is_any_serialization_annotation(annotation) ==
    /\ is_annotated_type(annotation)
    /\ \E i \in 1..Len(annotation.metadata) :
           annotation.metadata[i].serialization

\* isinstance(value, type): bool is a subclass of int
IsInstance(value, annotation) ==
    \/ value.t = annotation.k
    \/ value.t = "bool" /\ annotation.k = "int"

-----------------------------------------------------------------------------
(* Renaming the keys of JSON objects (coercion.py, with inflection)      *)

\* a Python dict: its items in insertion order, the keys being values
DictOf(items) == [t |-> "dict", items |-> items]
Item(key, value) == [key |-> key, value |-> value]

\* dct[key] = value: an existing key keeps its place
DictSet(items, key, value) ==
    IF \E i \in 1..Len(items) : items[i].key = key
    THEN [i \in 1..Len(items) |->
             IF items[i].key = key THEN Item(key, value) ELSE items[i]]
    ELSE Append(items, Item(key, value))

\* re.sub(r"(?:^|_)(.)", upper, string) after the first character
RECURSIVE CamelizeRest(_)
CamelizeRest(r) ==
    IF r = <<>> THEN <<>>
    ELSE IF Len(r) >= 2 /\ r[1] = "_"
         THEN <<uppercase(r[2])>> \o CamelizeRest(SubSeq(r, 3, Len(r)))
         ELSE <<r[1]>> \o CamelizeRest(Tail(r))

\* inflection.camelize: string[0] of the empty string is an IndexError
camelize(string, uppercase_first_letter) ==
    IF uppercase_first_letter
    THEN VStr(IF string = <<>> THEN <<>>
              ELSE <<uppercase(string[1])>> \o CamelizeRest(Tail(string)))
    ELSE IF string = <<>>
         THEN Raise("IndexError", <<Msg("string index out of range")>>)
         ELSE VStr(<<lowercase(string[1])>> \o CamelizeRest(Tail(string)))

\* re.sub(r"([A-Z]+)([A-Z][a-z])", r"\1_\2", word): the last capital of a
\* run of two or more that a small letter follows is set off
AcronymsSplit(word) ==
    Concat([i \in 1..Len(word) |->
               IF /\ i > 1 /\ i < Len(word)
                  /\ word[i] \in Upper /\ word[i - 1] \in Upper
                  /\ word[i + 1] \in Lowers
               THEN <<"_", word[i]>>
               ELSE <<word[i]>>])

\* re.sub(r"([a-z\d])([A-Z])", r"\1_\2", word)
HumpsSplit(word) ==
    Concat([i \in 1..Len(word) |->
               IF i > 1 /\ word[i] \in Upper /\ word[i - 1] \in Lowers \cup Digits
               THEN <<"_", word[i]>>
               ELSE <<word[i]>>])

\* inflection.underscore
underscore(word) ==
    LET split == HumpsSplit(AcronymsSplit(word))
    IN  VStr([i \in 1..Len(split) |->
                 IF split[i] = "-" THEN "_" ELSE lowercase(split[i])])

_camelize(value) ==
    IF value.t = "str" THEN camelize(value.s, FALSE) ELSE value

_underscore(value) ==
    IF value.t = "str" THEN underscore(value.s) ELSE value

\* rename(name), rename being one of the two functions above
CallRename(rename, name) ==
    CASE rename = "_camelize" -> _camelize(name)
      [] rename = "_underscore" -> _underscore(name)

RECURSIVE _rename_object(_, _)
RECURSIVE RenameDictLoop(_, _, _, _)
RECURSIVE RenameListLoop(_, _, _, _)

\* one item of the dict comprehension: the key, then the value
RenameDictStep(items, rename, acc, i, name, obj) ==
    IF IsRaise(name) THEN name
    ELSE IF IsRaise(obj) THEN obj
    ELSE RenameDictLoop(items, rename, DictSet(acc, name, obj), i + 1)

RenameDictLoop(items, rename, acc, i) ==
    IF i > Len(items) THEN DictOf(acc)
    ELSE RenameDictStep(items, rename, acc, i,
                        CallRename(rename, items[i].key),
                        _rename_object(items[i].value, rename))

_rename_dict(dct, rename) == RenameDictLoop(dct.items, rename, <<>>, 1)

RenameListStep(lst, rename, acc, i, obj) ==
    IF IsRaise(obj) THEN obj
    ELSE RenameListLoop(lst, rename, Append(acc, obj), i + 1)

RenameListLoop(lst, rename, acc, i) ==
    IF i > Len(lst) THEN VList(acc)
    ELSE RenameListStep(lst, rename, acc, i, _rename_object(lst[i], rename))

_rename_list(lst, rename) == RenameListLoop(lst.items, rename, <<>>, 1)

_rename_object(obj, rename) ==
    IF obj.t = "dict" THEN _rename_dict(obj, rename)
    ELSE IF obj.t = "list" THEN _rename_list(obj, rename)
    ELSE obj

camelize_object(obj) == _rename_object(obj, "_camelize")

underscore_object(obj) == _rename_object(obj, "_underscore")

\* obj == other of Python: dicts are equal when their items are, in any order
RECURSIVE PyEq(_, _)
PyEq(obj, other) ==
    IF IsRaise(obj) \/ IsRaise(other) THEN FALSE
    ELSE IF obj.t = "dict"
    THEN /\ other.t = "dict"
         /\ Len(other.items) = Len(obj.items)
         /\ \A i \in 1..Len(obj.items) :
                \E j \in 1..Len(other.items) :
                    /\ other.items[j].key = obj.items[i].key
                    /\ PyEq(obj.items[i].value, other.items[j].value)
    ELSE IF obj.t = "list"
    THEN /\ other.t = "list"
         /\ Len(other.items) = Len(obj.items)
         /\ \A i \in 1..Len(obj.items) : PyEq(obj.items[i], other.items[i])
    ELSE obj = other

-----------------------------------------------------------------------------
(* The error responses of a handler's docstring (swagger/errors.py)      *)

\* docstring_parser.DocstringRaises
DocstringRaises(type_name, description) ==
    [type_name |-> type_name, description |-> description]

\* str.strip()
RECURSIVE strip(_)
strip(s) ==
    IF s = <<>> THEN s
    ELSE IF s[1] = " " THEN strip(Tail(s))
    ELSE IF s[Len(s)] = " " THEN strip(SubSeq(s, 1, Len(s) - 1))
    ELSE s

\* str.partition(sep): the text before the first sep, sep or "", the rest
partition(s, sep) ==
    LET found == {i \in 1..Len(s) : s[i] = sep}
    IN  IF found = {} THEN <<s, <<>>, <<>>>>
        ELSE LET at == CHOOSE i \in found : \A j \in found : i <= j
             IN  <<SubSeq(s, 1, at - 1), <<sep>>, SubSeq(s, at + 1, Len(s))>>

\* errors.py lines 27-34: the bare except skips an entry whose code is no int
ErrorResponse(responses, error_code, rest) ==
    IF IsRaise(error_code) THEN responses
    ELSE DictSet(responses, error_code, strip(rest))

\* errors.py lines 22-34: one entry of the docstring
GatherStep(responses, raises, parts) ==
    IF raises.type_name # "HTTPError" THEN responses
    ELSE IF parts[2] = <<>> THEN responses
    ELSE ErrorResponse(responses, PyInt(strip(parts[1])), parts[3])

RECURSIVE GatherLoop(_, _, _)
GatherLoop(docstring_raises, responses, i) ==
    IF i > Len(docstring_raises) THEN responses
    ELSE GatherLoop(docstring_raises,
                    GatherStep(responses, docstring_raises[i],
                               partition(docstring_raises[i].description, ",")),
                    i + 1)

gather_error_responses(docstring_raises) ==
    DictOf(GatherLoop(docstring_raises, <<>>, 1))

-----------------------------------------------------------------------------
(* Timestamps as JSON text (json_serialization.py; serialization.py holds *)
(* the same two functions)                                                *)

DigitText(d) ==
    CASE d = 0 -> "0" [] d = 1 -> "1" [] d = 2 -> "2" [] d = 3 -> "3"
      [] d = 4 -> "4" [] d = 5 -> "5" [] d = 6 -> "6" [] d = 7 -> "7"
      [] d = 8 -> "8" [] d = 9 -> "9"

RECURSIVE NatText(_)
NatText(n) ==
    IF n < 10 THEN <<DigitText(n)>>
    ELSE NatText(n \div 10) \o <<DigitText(n % 10)>>

\* timestamp.utcoffset() of an aware datetime
Timedelta(seconds) == [t |-> "timedelta", seconds |-> seconds]

\* a datetime; utcoffset is None for a naive one
Datetime(year, month, day, hour, minute, second, microsecond, utcoffset) ==
    [t |-> "datetime", year |-> year, month |-> month, day |-> day,
     hour |-> hour, minute |-> minute, second |-> second,
     microsecond |-> microsecond, utcoffset |-> utcoffset]

\* "{n:0<width>d}": the digits of n, zero-filled up to width and never cut
ZeroPadded(n, width) ==
    IF Len(NatText(n)) >= width THEN NatText(n)
    ELSE [i \in 1..(width - Len(NatText(n))) |-> "0"] \o NatText(n)

date_part(timestamp) ==
    ZeroPadded(timestamp.year, 4) \o <<"-">> \o ZeroPadded(timestamp.month, 2)
        \o <<"-">> \o ZeroPadded(timestamp.day, 2)

\* the fraction is written with "{millis:02d}"
time_part(timestamp) ==
    ZeroPadded(timestamp.hour, 2) \o <<":">> \o ZeroPadded(timestamp.minute, 2)
        \o <<":">> \o ZeroPadded(timestamp.second, 2)
        \o <<".">> \o ZeroPadded(timestamp.microsecond \div 1000, 2)

\* lines 98-102: sign, hours and minutes of the offset
tz_part(tz_seconds) ==
    <<IF tz_seconds < 0 THEN "-" ELSE "+">>
        \o ZeroPadded(((IF tz_seconds < 0 THEN 0 - tz_seconds ELSE tz_seconds)
                          \div 60) \div 60, 2)
        \o <<":">>
        \o ZeroPadded(((IF tz_seconds < 0 THEN 0 - tz_seconds ELSE tz_seconds)
                          \div 60) % 60, 2)

datetime_to_json(timestamp) ==
    IF timestamp.utcoffset = None
    THEN VStr(date_part(timestamp) \o <<"T">> \o time_part(timestamp) \o <<"Z">>)
    ELSE VStr(date_part(timestamp) \o <<"T">> \o time_part(timestamp)
                  \o tz_part(timestamp.utcoffset.seconds))

\* ^\d{4}-\d{2}-\d{2}T\d{2}:\d{2}:\d{2}, the head of all four patterns
MatchesSeconds(s) ==
    /\ Len(s) >= 19
    /\ AllDigits(SubSeq(s, 1, 4)) /\ s[5] = "-"
    /\ AllDigits(SubSeq(s, 6, 7)) /\ s[8] = "-"
    /\ AllDigits(SubSeq(s, 9, 10)) /\ s[11] = "T"
    /\ AllDigits(SubSeq(s, 12, 13)) /\ s[14] = ":"
    /\ AllDigits(SubSeq(s, 15, 16)) /\ s[17] = ":"
    /\ AllDigits(SubSeq(s, 18, 19))

\* how many digits s has from position i on
RECURSIVE DigitRun(_, _)
DigitRun(s, i) ==
    IF i <= Len(s) /\ s[i] \in Digits THEN 1 + DigitRun(s, i + 1) ELSE 0

\* Z$ and [+-]\d{2}:\d{2}$
MatchesZone(rest, zone) ==
    IF zone
    THEN /\ Len(rest) = 6
         /\ rest[1] \in {"+", "-"}
         /\ AllDigits(SubSeq(rest, 2, 3)) /\ rest[4] = ":"
         /\ AllDigits(SubSeq(rest, 5, 6))
    ELSE rest = <<"Z">>

\* the four entries of DATETIME_FORMATS: with or without \.\d+, Z or an
\* offset, and the transform that takes the colon out of the offset
DATETIME_FORMATS ==
    << [fraction |-> FALSE, zone |-> FALSE, transform |-> FALSE],
       [fraction |-> TRUE, zone |-> FALSE, transform |-> FALSE],
       [fraction |-> FALSE, zone |-> TRUE, transform |-> TRUE],
       [fraction |-> TRUE, zone |-> TRUE, transform |-> TRUE] >>

\* pattern.match(value)
PatternMatches(fmt, s) ==
    /\ MatchesSeconds(s)
    /\ IF fmt.fraction
       THEN /\ Len(s) >= 21 /\ s[20] = "." /\ DigitRun(s, 21) >= 1
            /\ MatchesZone(SubSeq(s, 21 + DigitRun(s, 21), Len(s)), fmt.zone)
       ELSE MatchesZone(SubSeq(s, 20, Len(s)), fmt.zone)

\* lambda s: s[0:-3] + s[-2:]
Transform(s) == SubSeq(s, 1, Len(s) - 3) \o SubSeq(s, Len(s) - 1, Len(s))

DaysInMonth(year, month) ==
    IF month = 2
    THEN IF year % 4 = 0 /\ (year % 100 # 0 \/ year % 400 = 0) THEN 29 ELSE 28
    ELSE IF month \in {4, 6, 9, 11} THEN 30 ELSE 31

\* %f: up to six digits, filled with zeros on the right
Microseconds(digits) ==
    CASE Len(digits) = 1 -> DigitsValue(digits) * 100000
      [] Len(digits) = 2 -> DigitsValue(digits) * 10000
      [] Len(digits) = 3 -> DigitsValue(digits) * 1000
      [] Len(digits) = 4 -> DigitsValue(digits) * 100
      [] Len(digits) = 5 -> DigitsValue(digits) * 10
      [] OTHER -> DigitsValue(digits)

\* %z of "+HHMM": the offset east of UTC; None for the literal Z
UtcOffset(zone) ==
    IF zone = <<"Z">> THEN None
    ELSE Timedelta((IF zone[1] = "-" THEN -1 ELSE 1)
                       * (DigitsValue(SubSeq(zone, 2, 3)) * 3600
                             + DigitsValue(SubSeq(zone, 4, 5)) * 60))

DoesNotMatch ==
    Raise("ValueError", <<Msg("time data does not match format")>>)

\* datetime.strptime(text, fmt) of a text the pattern let through: the
\* fields out of range and a fraction of more than six digits are a
\* ValueError
strptime(text, fmt, digits, zone) ==
    IF \/ Len(digits) > 6
       \/ DigitsValue(SubSeq(text, 1, 4)) < 1
       \/ DigitsValue(SubSeq(text, 6, 7)) \notin 1..12
       \/ DigitsValue(SubSeq(text, 9, 10)) < 1
       \/ DigitsValue(SubSeq(text, 9, 10))
              > DaysInMonth(DigitsValue(SubSeq(text, 1, 4)),
                            DigitsValue(SubSeq(text, 6, 7)))
       \/ DigitsValue(SubSeq(text, 12, 13)) > 23
       \/ DigitsValue(SubSeq(text, 15, 16)) > 59
       \/ DigitsValue(SubSeq(text, 18, 19)) > 59
       \/ (fmt.zone /\ (\/ DigitsValue(SubSeq(zone, 2, 3)) > 23
                        \/ DigitsValue(SubSeq(zone, 4, 5)) > 59))
    THEN DoesNotMatch
    ELSE Datetime(DigitsValue(SubSeq(text, 1, 4)),
                  DigitsValue(SubSeq(text, 6, 7)),
                  DigitsValue(SubSeq(text, 9, 10)),
                  DigitsValue(SubSeq(text, 12, 13)),
                  DigitsValue(SubSeq(text, 15, 16)),
                  DigitsValue(SubSeq(text, 18, 19)),
                  IF fmt.fraction THEN Microseconds(digits) ELSE 0,
                  UtcOffset(zone))

\* lines 68-70, for the format whose pattern matched
Parsed(text, fmt) ==
    strptime(text, fmt,
             IF fmt.fraction THEN SubSeq(text, 21, 20 + DigitRun(text, 21))
             ELSE <<>>,
             IF fmt.fraction
             THEN SubSeq(text, 21 + DigitRun(text, 21), Len(text))
             ELSE SubSeq(text, 20, Len(text)))

RECURSIVE FormatLoop(_, _)
FormatLoop(s, i) ==
    IF i > Len(DATETIME_FORMATS) THEN None
    ELSE IF PatternMatches(DATETIME_FORMATS[i], s)
    THEN Parsed(IF DATETIME_FORMATS[i].transform THEN Transform(s) ELSE s,
                DATETIME_FORMATS[i])
    ELSE FormatLoop(s, i + 1)

json_to_datetime(value) ==
    IF value.t = "str" THEN FormatLoop(value.s, 1) ELSE None

\* protocol/iso_8601.iso_8601_to_datetime, the name the engines import the
\* same function under
iso_8601_to_datetime(value) == json_to_datetime(value)

-----------------------------------------------------------------------------
(* The typed JSON deserializer (protocol/json/typed_deserializer.py) *)

\* float(text), kept as a scaled integer
AsFloat(d) ==
    IF IsRaise(d)
    THEN Raise("ValueError", <<Msg("could not convert string to float")>>)
    ELSE [t |-> "float", coef |-> d.coef, exp |-> d.exp]

PyFloat(s) == AsFloat(PyDecimal(s))

_from_json_value_to_builtin(value, type_annotation) ==
    IF IsInstance(value, type_annotation) THEN value
    ELSE IF value.t = "str"
         THEN CASE type_annotation.k = "str" -> value
                [] type_annotation.k = "int" -> PyInt(value.s)
                [] type_annotation.k = "bool" ->
                       VBool(Lower(value.s) = <<"t", "r", "u", "e">>)
                [] type_annotation.k = "float" -> PyFloat(value.s)
                [] type_annotation.k = "Decimal" -> PyDecimal(value.s)
                [] type_annotation.k = "datetime" -> iso_8601_to_datetime(value)
         ELSE Raise("RuntimeError", <<Msg("Unable to coerce value")>>)

\* (get_origin(annotation), metadata[0]); metadata is None when the
\* annotation is not Annotated, and None[0] raises TypeError
get_json_annotation(annotation) ==
    IF is_annotated_type(annotation)
    THEN [type |-> annotation.args[1], json |-> annotation.metadata[1]]
    ELSE Raise("TypeError", <<Msg("'NoneType' object is not subscriptable")>>)

\* what "for item in lst" iterates over, or the TypeError it raises
IterItems(lst) ==
    CASE lst.t = "list" -> lst
      [] lst.t = "str" -> VList([i \in 1..Len(lst.s) |-> VStr(<<lst.s[i]>>)])
      [] OTHER -> Raise("TypeError", <<Msg("object is not iterable")>>)

RECURSIVE _from_json_value(_, _, _, _)
RECURSIVE UnionLoop(_, _, _, _, _)
RECURSIVE ListLoop(_, _, _, _, _)
RECURSIVE TypedDictLoop(_, _, _, _, _, _)

\* a list comprehension's next step: an element that raises ends it
Cons(first, rest) ==
    IF IsRaise(first) THEN first
    ELSE IF IsRaise(rest) THEN rest
    ELSE VList(<<first>> \o rest.items)

\* the list comprehension of _from_json_obj_to_list
ListLoop(items, i, item_type, item_json, config) ==
    IF i > Len(items) THEN VList(<<>>)
    ELSE Cons(_from_json_value(items[i], item_type, item_json, config),
              ListLoop(items, i + 1, item_type, item_json, config))

ListOfItems(item, items, config) ==
    IF IsRaise(item) THEN item
    ELSE IF IsRaise(items) THEN items
    ELSE ListLoop(items.items, 1, item.type, item.json, config)

_from_json_obj_to_list(lst, type_annotation, config) ==
    ListOfItems(get_json_annotation(type_annotation.args[1]), IterItems(lst),
                config)

\* "sub in text"
IsSubstring(sub, text) ==
    \E i \in 1..(Len(text) + 1) :
        /\ i + Len(sub) - 1 <= Len(text)
        /\ SubSeq(text, i, i + Len(sub) - 1) = sub

\* "tag in obj"
Contains(obj, tag) ==
    CASE obj.t = "dict" -> VBool(tag \in DOMAIN obj.d)
      [] obj.t = "list" ->
             VBool(\E i \in 1..Len(obj.items) : obj.items[i] = VStr(tag))
      [] obj.t = "str" -> VBool(IsSubstring(tag, obj.s))
      [] OTHER -> Raise("TypeError", <<Msg("argument is not iterable")>>)

\* "obj[tag]", tag a str
GetItem(obj, tag) ==
    IF obj.t = "dict" THEN obj.d[tag]
    ELSE Raise("TypeError", <<Msg("indices must be integers")>>)

\* dct.get(name)
DictGet(dct, name) ==
    IF dct.t # "dict"
    THEN Raise("AttributeError", <<Msg("object has no attribute 'get'")>>)
    ELSE IF name \in DOMAIN dct.d THEN dct.d[name]
    ELSE None

\* lines 136-140: a member that is Annotated assigns item_type_annotation and
\* item_json_annotation; any other member leaves them as they were
MemberItem(member, item) ==
    IF is_annotated_type(member.annotation)
    THEN get_json_annotation(member.annotation)
    ELSE item

IsJSONProperty(json_annotation) ==
    json_annotation.cls \in {"JSONProperty", "JSONObject", "JSONList"}

\* lines 136-147: the property a member is read from
MemberProperty(member, item, config) ==
    IF is_annotated_type(member.annotation)
    THEN IF IsJSONProperty(item.json) THEN item.json
         ELSE Raise("TypeError", <<Msg("Must be a property")>>)
    ELSE JSONProperty(Rename(config.deserialize_key, member.name))

\* reading a local that was never assigned
UnboundLocalError ==
    Raise("UnboundLocalError",
          <<Msg("local variable referenced before assignment")>>)

\* the KeyError of a member without a default, naming its external key
RequiredKeyMissing(tag) ==
    Raise("KeyError", <<VStr(<<"Required key \"">> \o tag
                              \o <<"\" is missing">>)>>)

\* lines 149-154: the member's key is in the wire object
MemberPresent(wire_value, item, config) ==
    IF IsRaise(wire_value) THEN wire_value
    ELSE IF item = Unbound THEN UnboundLocalError
    ELSE _from_json_value(wire_value, item.type, item.json, config)

\* lines 156-168: the member's key is not in the wire object
MemberAbsent(member, item, json_property, config) ==
    IF item = Unbound THEN UnboundLocalError
    ELSE IF is_optional_type(item.type) THEN None
    ELSE IF member.default = Empty THEN RequiredKeyMissing(json_property.tag)
    ELSE _from_json_value(member.default, item.type, item.json, config)

\* lines 149-168, given whether the key is in the wire object
MemberOf(obj, member, item, json_property, present, config) ==
    IF IsRaise(present) THEN present
    ELSE IF present.b
    THEN MemberPresent(GetItem(obj, json_property.tag), item, config)
    ELSE MemberAbsent(member, item, json_property, config)

\* lines 136-168: the value of one member
MemberValue(obj, member, item, json_property, config) ==
    IF IsRaise(json_property) THEN json_property
    ELSE MemberOf(obj, member, item, json_property,
                  Contains(obj, json_property.tag), config)

\* json_obj[name] = ..., then the next member
TypedDictPut(obj, members, i, item, json_obj, config, value) ==
    IF IsRaise(value) THEN value
    ELSE TypedDictLoop(obj, members, i + 1, item,
                       (members[i].name :> value) @@ json_obj, config)

\* one iteration, item being this iteration's item annotations
TypedDictStep(obj, members, i, item, json_obj, config) ==
    TypedDictPut(obj, members, i, item, json_obj, config,
                 MemberValue(obj, members[i], item,
                             MemberProperty(members[i], item, config), config))

\* the loop over the members; item is what the iterations before left in
\* item_type_annotation and item_json_annotation
TypedDictLoop(obj, members, i, item, json_obj, config) ==
    IF i > Len(members) THEN VDict(json_obj)
    ELSE TypedDictStep(obj, members, i, MemberItem(members[i], item),
                       json_obj, config)

_from_json_obj_to_typed_dict(obj, type_annotation, config) ==
    TypedDictLoop(obj, typed_dict_annotation(type_annotation), 1, Unbound,
                  <<>>, config)

\* a union member's result stands unless it raised
FirstThatDecodes(r, others) == IF IsRaise(r) THEN others ELSE r

\* a faulty union: the members are tried from the last to the first
RECURSIVE UnionLoopReversed(_, _, _, _, _)
UnionLoopReversed(obj, members, i, json_annotation, config) ==
    IF i > Len(members) THEN None
    ELSE FirstThatDecodes(
             _from_json_value(obj, members[Len(members) + 1 - i],
                              json_annotation, config),
             UnionLoopReversed(obj, members, i + 1, json_annotation, config))

\* try each member in declared order; a member that raises is skipped;
\* falling off the loop returns None
UnionLoop(obj, members, i, json_annotation, config) ==
    IF i > Len(members) THEN None
    ELSE FirstThatDecodes(
             _from_json_value(obj, members[i], json_annotation, config),
             UnionLoop(obj, members, i + 1, json_annotation, config))

_from_json_obj_to_union(obj, type_annotation, json_annotation, config) ==
    UnionLoop(obj, get_args(type_annotation), 1, json_annotation, config)

\* Union[tuple(types)]: no type is an error, one type is that type
MakeUnion(types) ==
    IF types = <<>>
    THEN Raise("TypeError", <<Msg("Cannot take a Union of no types")>>)
    ELSE IF Len(types) = 1 THEN types[1] ELSE TUnion(types)

\* lines 63-78, given get_args(type_annotation)[:-1]
OptionalOf(obj, union_types, json_annotation, config) ==
    IF Len(union_types) = 1 /\ Falsy(obj) THEN None
    ELSE IF Len(union_types) = 0 THEN MakeUnion(union_types)
    ELSE _from_json_value(obj, MakeUnion(union_types), json_annotation, config)

_from_json_obj_to_optional(obj, type_annotation, json_annotation, config) ==
    OptionalOf(obj,
               SubSeq(get_args(type_annotation), 1,
                      Len(get_args(type_annotation)) - 1),
               json_annotation, config)

_from_json_value(json_value, type_annotation, json_annotation, config) ==
    IF is_simple_type(type_annotation)
    THEN _from_json_value_to_builtin(json_value, type_annotation)
    ELSE IF is_optional_type(type_annotation)
    THEN _from_json_obj_to_optional(json_value, type_annotation,
                                    json_annotation, config)
    ELSE IF is_list(type_annotation)
    THEN _from_json_obj_to_list(json_value, type_annotation, config)
    ELSE IF is_typed_dict(type_annotation)
    THEN _from_json_obj_to_typed_dict(json_value, type_annotation, config)
    ELSE IF is_union_type(type_annotation)
    THEN _from_json_obj_to_union(json_value, type_annotation,
                                 json_annotation, config)
    ELSE Raise("TypeError", <<>>)

\* json.loads: the text of a JSON document is kept as the value it encodes;
\* text that is no JSON raises JSONDecodeError
json_loads(text) ==
    IF "json" \in DOMAIN text THEN text.json
    ELSE Raise("JSONDecodeError", <<Msg("Expecting value")>>)

\* typed_deserializer.from_json_value: the entry point, also the default
\* argument deserializer (json_arg_deserializer_factory)
from_json_value(config, json_value, annotation) ==
    IF is_annotated_type(annotation)
       /\ get_json_annotation(annotation).json.cls # "JSONValue"
    THEN Raise("TypeError",
               <<Msg("Expected the root value to have a JSONValue annotation")>>)
    ELSE _from_json_value(json_value,
                          IF is_annotated_type(annotation)
                          THEN get_json_annotation(annotation).type
                          ELSE annotation,
                          JSONValue, config)

FromJsonValueOf(config, json_value, annotation) ==
    IF IsRaise(json_value) THEN json_value
    ELSE from_json_value(config, json_value, annotation)

\* typed_deserializer.deserialize
deserialize(text, annotation, config) ==
    FromJsonValueOf(config, json_loads(text), annotation)

-----------------------------------------------------------------------------
(* The JSON coercion engine (protocol/json/coercion.py) *)

is_json_literal(annotation) ==
    annotation.k \in {"str", "bool", "int", "float", "Decimal", "datetime",
                      "timedelta"}

\* value[0] if isinstance(value, list) else value
SingleValue(value) ==
    IF value.t # "list" THEN value
    ELSE IF value.items = <<>>
    THEN Raise("IndexError", <<Msg("list index out of range")>>)
    ELSE value.items[1]

BuiltinOf(single_value, annotation) ==
    IF IsRaise(single_value) THEN single_value
    ELSE _from_json_value_to_builtin(single_value, annotation)

RECURSIVE coercion_from_json_value(_, _)
RECURSIVE CoerceListLoop(_, _, _)
RECURSIVE CoerceUnionLoop(_, _, _)

\* line 172: the list comprehension
CoerceListLoop(items, i, element_type) ==
    IF i > Len(items) THEN VList(<<>>)
    ELSE Cons(coercion_from_json_value(items[i], element_type),
              CoerceListLoop(items, i + 1, element_type))

CoerceList(items, element_type) ==
    IF IsRaise(items) THEN items
    ELSE CoerceListLoop(items.items, 1, element_type)

\* lines 178-184: a member that raises is skipped; falling off the loop
\* reaches the final "raise TypeError"
CoerceUnionLoop(value, members, i) ==
    IF i > Len(members) THEN Raise("TypeError", <<>>)
    ELSE FirstThatDecodes(coercion_from_json_value(value, members[i]),
                          CoerceUnionLoop(value, members, i + 1))

\* lines 162-167, given get_args(annotation)[:-1]
CoerceOptional(value, union_types) ==
    IF Len(union_types) = 1 /\ Falsy(value) THEN None
    ELSE IF Len(union_types) = 0 THEN MakeUnion(union_types)
    ELSE coercion_from_json_value(value, MakeUnion(union_types))

\* coercion.from_json_value
coercion_from_json_value(value, annotation) ==
    IF is_json_literal(annotation)
    THEN BuiltinOf(SingleValue(value), annotation)
    ELSE IF is_optional_type(annotation)
    THEN CoerceOptional(value, SubSeq(get_args(annotation), 1,
                                      Len(get_args(annotation)) - 1))
    ELSE IF is_list(annotation)
    THEN CoerceList(IterItems(value), get_args(annotation)[1])
    ELSE IF is_union_type(annotation)
    THEN CoerceUnionLoop(value, get_args(annotation), 1)
    ELSE Raise("TypeError", <<>>)

-----------------------------------------------------------------------------
(* The XML deserializer (protocol/xml/deserializer.py) *)

\* an lxml element: text is None or a str
Element(tag, text, attrib) ==
    [tag |-> tag, text |-> text, attrib |-> attrib, children |-> <<>>]

_is_element_empty(element, xml_annotation) ==
    IF xml_annotation.cls = "XMLAttribute"
    THEN xml_annotation.tag \notin DOMAIN element.attrib
    ELSE /\ element.children = <<>>
         /\ element.text = None
         /\ DOMAIN element.attrib = {}

\* lines 59-62: a text that is no timestamp
TimestampOf(timestamp) ==
    IF timestamp = None
    THEN Raise("ValueError", <<Msg("Unable co convert to datetime")>>)
    ELSE timestamp

_to_builtin(text, type_annotation) ==
    CASE type_annotation.k = "str" -> VStr(text)
      [] type_annotation.k = "int" -> PyInt(text)
      [] type_annotation.k = "bool" -> VBool(Lower(text) = <<"t", "r", "u", "e">>)
      [] type_annotation.k = "float" -> PyFloat(text)
      [] type_annotation.k = "Decimal" -> PyDecimal(text)
      [] type_annotation.k = "datetime" -> TimestampOf(iso_8601_to_datetime(VStr(text)))
      [] OTHER -> Raise("TypeError", <<Msg("Unhandled type")>>)

\* lines 122-125: the text of the element, or of its attribute
ElementText(element, xml_annotation) ==
    IF xml_annotation.cls # "XMLAttribute" THEN element.text
    ELSE IF xml_annotation.tag \in DOMAIN element.attrib
    THEN element.attrib[xml_annotation.tag]
    ELSE Raise("KeyError", <<VStr(xml_annotation.tag)>>)

BuiltinOfText(text, type_annotation) ==
    IF IsRaise(text) THEN text
    ELSE IF text = None
    THEN Raise("ValueError", <<Msg("Expected the tag to be non-null")>>)
    ELSE _to_builtin(text.s, type_annotation)

_to_simple(element, type_annotation, xml_annotation) ==
    BuiltinOfText(ElementText(element, xml_annotation), type_annotation)

RECURSIVE _to_obj(_, _, _, _)
RECURSIVE XmlUnionLoop(_, _, _, _, _)
RECURSIVE XmlListLoop(_, _, _, _, _)
RECURSIVE XmlTypedDictLoop(_, _, _, _, _)

\* a member that raises is skipped; falling off the loop returns None
XmlUnionLoop(element, members, i, xml_annotation, config) ==
    IF i > Len(members) THEN None
    ELSE FirstThatDecodes(
             _to_obj(element, members[i], xml_annotation, config),
             XmlUnionLoop(element, members, i + 1, xml_annotation, config))

_to_union(element, type_annotation, xml_annotation, config) ==
    XmlUnionLoop(element, get_args(type_annotation), 1, xml_annotation, config)

\* lines 99-114, given get_args(type_annotation)[:-1]
XmlOptionalOf(element, union_types, xml_annotation, config) ==
    IF Len(union_types) = 1
    THEN _to_obj(element, union_types[1], xml_annotation, config)
    ELSE IF Len(union_types) = 0 THEN MakeUnion(union_types)
    ELSE _to_union(element, TUnion(union_types), xml_annotation, config)

_to_optional(element, type_annotation, xml_annotation, config) ==
    IF _is_element_empty(element, xml_annotation) THEN None
    ELSE XmlOptionalOf(element,
                       SubSeq(get_args(type_annotation), 1,
                              Len(get_args(type_annotation)) - 1),
                       xml_annotation, config)

\* (get_origin(annotation), metadata[0]), as get_json_annotation
get_xml_annotation(annotation) ==
    IF is_annotated_type(annotation)
    THEN [type |-> annotation.args[1], xml |-> annotation.metadata[1]]
    ELSE Raise("TypeError", <<Msg("'NoneType' object is not subscriptable")>>)

\* an element with children; element.getparent() is None for a root
ElementTree(tag, text, attrib, children) ==
    [tag |-> tag, text |-> text, attrib |-> attrib, children |-> children]

getparent(element) ==
    IF "parent" \in DOMAIN element THEN element.parent ELSE None

\* a child as lxml hands it out: it knows its parent
SubElement(node, parent) ==
    [tag |-> node.tag, text |-> node.text, attrib |-> node.attrib,
     children |-> node.children, parent |-> parent]

\* the children of an element, in document order
ChildrenOf(element) ==
    [i \in 1..Len(element.children) |->
        SubElement(element.children[i], element)]

WithTag(elements, tag) == SelectSeq(elements, LAMBDA e : e.tag = tag)

\* element.find('./' + tag): the first child with that tag, or None
find(element, tag) ==
    IF WithTag(ChildrenOf(element), tag) = <<>> THEN None
    ELSE Head(WithTag(ChildrenOf(element), tag))

\* element.iterfind('../' + tag): the children of the parent with that tag
iterfind_siblings(element, tag) ==
    IF getparent(element) = None THEN <<>>
    ELSE WithTag(ChildrenOf(getparent(element)), tag)

\* the element and all its descendants, in document order
RECURSIVE Subtree(_)
Subtree(element) ==
    <<element>> \o Concat([i \in 1..Len(element.children) |->
                              Subtree(ChildrenOf(element)[i])])

\* element.iter(tag): the element itself and every descendant with that tag
iter(element, tag) == WithTag(Subtree(element), tag)

\* lines 142-148: the elements the list is read from
ListElements(element, xml_annotation, element_xml_annotation) ==
    IF xml_annotation.tag = element_xml_annotation.tag
    THEN iterfind_siblings(element, element_xml_annotation.tag)
    ELSE iter(element, element_xml_annotation.tag)

\* lines 150-158: the list comprehension
XmlListLoop(elements, i, element_type, element_xml_annotation, config) ==
    IF i > Len(elements) THEN VList(<<>>)
    ELSE Cons(_to_obj(elements[i], element_type, element_xml_annotation,
                      config),
              XmlListLoop(elements, i + 1, element_type,
                          element_xml_annotation, config))

XmlListOf(element, xml_annotation, item, config) ==
    IF IsRaise(item) THEN item
    ELSE IF "tag" \notin DOMAIN item.xml
    THEN Raise("AttributeError", <<Msg("object has no attribute 'tag'")>>)
    ELSE XmlListLoop(ListElements(element, xml_annotation, item.xml), 1,
                     item.type, item.xml, config)

_to_list(element, type_annotation, xml_annotation, config) ==
    XmlListOf(element, xml_annotation,
              get_xml_annotation(type_annotation.args[1]), config)

\* lines 174-177: the element a member is read from
MemberElement(element, xml_annotation) ==
    IF xml_annotation.cls # "XMLAttribute"
    THEN find(element, xml_annotation.tag)
    ELSE element

\* lines 187-193: _to_obj handed the declared default, which is no element.
\* Reading its text, attributes or children raises AttributeError; a typed
\* dict maps None to None; a union swallows what its members raise.
ToObjOfDefault(default, type_annotation) ==
    IF is_typed_dict(type_annotation) /\ default = None THEN None
    ELSE IF /\ is_union_type(type_annotation)
            /\ ~is_optional_type(type_annotation)
    THEN None
    ELSE IF \/ is_simple_type(type_annotation)
            \/ is_optional_type(type_annotation)
            \/ is_list(type_annotation)
            \/ is_typed_dict(type_annotation)
    THEN Raise("AttributeError", <<Msg("object has no attribute")>>)
    ELSE Raise("TypeError", <<>>)

\* lines 178-193, given the member's element
XmlMemberOf(member_element, member, item, config) ==
    IF member_element # None
    THEN _to_obj(member_element, item.type, item.xml, config)
    ELSE IF member.default = Empty THEN RequiredKeyMissing(item.xml.tag)
    ELSE ToObjOfDefault(member.default, item.type)

\* lines 173-193: the value of one member
XmlMemberValue(element, member, item, config) ==
    IF IsRaise(item) THEN item
    ELSE IF "tag" \notin DOMAIN item.xml
    THEN Raise("AttributeError", <<Msg("object has no attribute 'tag'")>>)
    ELSE XmlMemberOf(MemberElement(element, item.xml), member, item, config)

\* coerced_values[name] = ..., then the next member
XmlTypedDictPut(element, members, i, coerced_values, config, value) ==
    IF IsRaise(value) THEN value
    ELSE XmlTypedDictLoop(element, members, i + 1,
                          (members[i].name :> value) @@ coerced_values, config)

XmlTypedDictLoop(element, members, i, coerced_values, config) ==
    IF i > Len(members) THEN VDict(coerced_values)
    ELSE XmlTypedDictPut(element, members, i, coerced_values, config,
                         XmlMemberValue(element, members[i],
                                        get_xml_annotation(
                                            members[i].annotation),
                                        config))

_to_typed_dict(element, type_annotation, config) ==
    IF element = None THEN None
    ELSE XmlTypedDictLoop(element, typed_dict_annotation(type_annotation), 1,
                          <<>>, config)

_to_obj(element, type_annotation, xml_annotation, config) ==
    IF is_simple_type(type_annotation)
    THEN _to_simple(element, type_annotation, xml_annotation)
    ELSE IF is_optional_type(type_annotation)
    THEN _to_optional(element, type_annotation, xml_annotation, config)
    ELSE IF is_list(type_annotation)
    THEN _to_list(element, type_annotation, xml_annotation, config)
    ELSE IF is_typed_dict(type_annotation)
    THEN _to_typed_dict(element, type_annotation, config)
    ELSE IF is_union_type(type_annotation)
    THEN _to_union(element, type_annotation, xml_annotation, config)
    ELSE Raise("TypeError", <<>>)

\* etree.fromstring: the text of a document is kept as the tree it encodes;
\* text that is no XML raises XMLSyntaxError
etree_fromstring(text) ==
    IF "xml" \in DOMAIN text THEN text.xml
    ELSE Raise("XMLSyntaxError", <<Msg("Start tag expected")>>)

\* lines 257-258, given the parsed root element
ToObjOfRoot(element, root, config) ==
    IF IsRaise(element) THEN element
    ELSE _to_obj(element, root.type, root.xml, config)

\* a deserialize that parses the text before it looks at the root annotation
DeserializeRootParseFirst(text, root, config) ==
    IF IsRaise(etree_fromstring(text)) THEN etree_fromstring(text)
    ELSE IF IsRaise(root) THEN root
    ELSE IF root.xml.cls # "XMLEntity"
    THEN Raise("TypeError",
               <<Msg("Expected the root value to have an XMLEntity annotation")>>)
    ELSE ToObjOfRoot(etree_fromstring(text), root, config)

\* lines 252-258, given get_xml_annotation(annotation)
DeserializeRoot(text, root, config) ==
    IF IsRaise(root) THEN root
    ELSE IF root.xml.cls # "XMLEntity"
    THEN Raise("TypeError",
               <<Msg("Expected the root value to have an XMLEntity annotation")>>)
    ELSE ToObjOfRoot(etree_fromstring(text), root, config)

\* xml deserializer.deserialize
xml_deserialize(text, annotation, config) ==
    DeserializeRoot(text, get_xml_annotation(annotation), config)

-----------------------------------------------------------------------------
(* The XML serializer (protocol/xml/serializer.py) *)

\* What a call leaves behind: the element it was handed, as it is after the
\* call (the element it made, when it was handed None). A call that raises
\* leaves the element as far as it got.
Ok(element) == [element |-> element]
Failed(error, element) ==
    [exc |-> error.exc, args |-> error.args, element |-> element]

\* str(obj) of the values a simple member holds
PyStr(obj) ==
    CASE obj.t = "str" -> obj
      [] obj.t = "int" ->
             VStr(IF obj.i < 0 THEN <<"-">> \o NatText(-obj.i)
                  ELSE NatText(obj.i))
      [] obj.t = "bool" -> VStr(IF obj.b THEN <<"True">> ELSE <<"False">>)
      [] obj.t = "None" -> VStr(<<"None">>)
      [] OTHER -> VStr(<<"<object>">>)

_simple_type_to_text(obj, type_annotation) ==
    CASE type_annotation.k = "str" -> obj
      [] type_annotation.k \in {"int", "float", "Decimal"} -> PyStr(obj)
      [] type_annotation.k = "bool" ->
             VStr(IF Falsy(obj) THEN <<"f", "a", "l", "s", "e">>
                  ELSE <<"t", "r", "u", "e">>)
      [] OTHER -> Raise("TypeError", <<Msg("Unhandled type")>>)

\* Element(tag) or SubElement(parent, tag), with what the element holds
Attach(parent, child) ==
    IF parent = None THEN child
    ELSE [parent EXCEPT !.children = Append(@, child)]

\* lxml takes str for a text and for an attribute value
NotText ==
    Raise("TypeError", <<Msg("Argument must be bytes or unicode")>>)

\* lines 175-183, given the text
SimpleOf(text, xml_annotation, element) ==
    IF IsRaise(text) THEN Failed(text, element)
    ELSE IF xml_annotation.cls = "XMLAttribute"
    THEN IF element = None
         THEN Failed(Raise("ValueError", <<Msg("No element for attribute")>>),
                     element)
         ELSE IF text.t # "str" THEN Failed(NotText, element)
         ELSE Ok([element EXCEPT
                     !.attrib = (xml_annotation.tag :> text) @@ @])
    ELSE IF text.t # "str"
    THEN Failed(NotText,
                IF element = None THEN None
                ELSE Attach(element,
                            ElementTree(xml_annotation.tag, None, <<>>, <<>>)))
    ELSE Ok(Attach(element, ElementTree(xml_annotation.tag, text, <<>>, <<>>)))

_from_simple(obj, type_annotation, xml_annotation, element) ==
    SimpleOf(_simple_type_to_text(obj, type_annotation), xml_annotation,
             element)

RECURSIVE _from_obj(_, _, _, _, _)
RECURSIVE FromUnionLoop(_, _, _, _, _, _)
RECURSIVE FromListLoop(_, _, _, _, _)
RECURSIVE FromTypedDictLoop(_, _, _, _, _)

\* a member that raised is skipped; what it did to the element stays
FromUnionNext(r, obj, members, i, xml_annotation, config) ==
    IF IsRaise(r)
    THEN FromUnionLoop(obj, members, i + 1, xml_annotation, r.element, config)
    ELSE r

\* falling off the loop returns None: the element is left as it is
FromUnionLoop(obj, members, i, xml_annotation, element, config) ==
    IF i > Len(members) THEN Ok(element)
    ELSE FromUnionNext(_from_obj(obj, members[i], xml_annotation, element,
                                 config),
                       obj, members, i, xml_annotation, config)

_from_union(obj, type_annotation, xml_annotation, element, config) ==
    FromUnionLoop(obj, get_args(type_annotation), 1, xml_annotation, element,
                  config)

\* lines 64-81, given get_args(type_annotation)[:-1]
FromOptionalOf(obj, union_types, xml_annotation, element, config) ==
    IF Len(union_types) = 1
    THEN _from_obj(obj, union_types[1], xml_annotation, element, config)
    ELSE IF Len(union_types) = 0
    THEN Failed(MakeUnion(union_types), element)
    ELSE _from_union(obj, TUnion(union_types), xml_annotation, element, config)

_from_optional(obj, type_annotation, xml_annotation, element, config) ==
    IF obj = None THEN Ok(element)
    ELSE FromOptionalOf(obj,
                        SubSeq(get_args(type_annotation), 1,
                               Len(get_args(type_annotation)) - 1),
                        xml_annotation, element, config)

\* lines 111-118: the item annotations
ListItem(item_annotation, xml_annotation) ==
    IF is_annotated_type(item_annotation)
    THEN get_xml_annotation(item_annotation)
    ELSE [type |-> item_annotation, xml |-> xml_annotation]

\* an item was written to parent; a root is handed no parent and keeps none
FromListNext(r, items, i, item, parent, config) ==
    IF IsRaise(r) THEN r
    ELSE FromListLoop(items, i + 1, item,
                      IF parent = None THEN None ELSE r.element, config)

\* lines 126-133: for item in obj
FromListLoop(items, i, item, parent, config) ==
    IF i > Len(items) THEN Ok(parent)
    ELSE FromListNext(_from_obj(items[i], item.type, item.xml, parent, config),
                      items, i, item, parent, config)

\* the wrapper element goes to the element it was made under
Wrapped(r, element) ==
    IF IsRaise(r) THEN Failed(r, Attach(element, r.element))
    ELSE Ok(Attach(element, r.element))

\* lines 120-135, given the item annotations and what obj iterates over
FromListOf(items, item, xml_annotation, element, config) ==
    IF xml_annotation.tag = item.xml.tag
    THEN IF IsRaise(items) THEN Failed(items, element)
         ELSE FromListLoop(items.items, 1, item, element, config)
    ELSE IF IsRaise(items)
    THEN Failed(items,
                Attach(element,
                       ElementTree(xml_annotation.tag, None, <<>>, <<>>)))
    ELSE Wrapped(FromListLoop(items.items, 1, item,
                              ElementTree(xml_annotation.tag, None, <<>>,
                                          <<>>),
                              config),
                 element)

_from_list(obj, type_annotation, xml_annotation, element, config) ==
    FromListOf(IterItems(obj),
               ListItem(type_annotation.args[1], xml_annotation),
               xml_annotation, element, config)

\* lines 149-156: the item annotations of a member
DictItem(member, config) ==
    IF is_annotated_type(member.annotation)
    THEN get_xml_annotation(member.annotation)
    ELSE [type |-> member.annotation,
          xml |-> XMLEntity(Rename(config.deserialize_key, member.name))]

\* lines 158-164, given obj.get(name)
FromMemberOf(value, item, dict_element, config) ==
    IF IsRaise(value) THEN Failed(value, dict_element)
    ELSE _from_obj(value, item.type, item.xml, dict_element, config)

FromTypedDictNext(r, obj, members, i, config) ==
    IF IsRaise(r) THEN r
    ELSE FromTypedDictLoop(obj, members, i + 1, r.element, config)

\* lines 148-164: for name, member in member_annotations.items()
FromTypedDictLoop(obj, members, i, dict_element, config) ==
    IF i > Len(members) THEN Ok(dict_element)
    ELSE FromTypedDictNext(
             FromMemberOf(DictGet(obj, members[i].name),
                          DictItem(members[i], config), dict_element, config),
             obj, members, i, config)

_from_typed_dict(obj, type_annotation, xml_annotation, element, config) ==
    Wrapped(FromTypedDictLoop(obj, typed_dict_annotation(type_annotation), 1,
                              ElementTree(xml_annotation.tag, None, <<>>, <<>>),
                              config),
            element)

_from_obj(obj, type_annotation, xml_annotation, element, config) ==
    IF is_simple_type(type_annotation)
    THEN _from_simple(obj, type_annotation, xml_annotation, element)
    ELSE IF is_optional_type(type_annotation)
    THEN _from_optional(obj, type_annotation, xml_annotation, element, config)
    ELSE IF is_list(type_annotation)
    THEN _from_list(obj, type_annotation, xml_annotation, element, config)
    ELSE IF is_typed_dict(type_annotation)
    THEN _from_typed_dict(obj, type_annotation, xml_annotation, element,
                          config)
    ELSE IF is_union_type(type_annotation)
    THEN _from_union(obj, type_annotation, xml_annotation, element, config)
    ELSE Failed(Raise("TypeError", <<>>), element)

\* what a parser reads back from the written text: <n></n> has no text
RECURSIVE Written(_)
Written(element) ==
    [tag |-> element.tag,
     text |-> IF element.text = VStr(<<>>) THEN None ELSE element.text,
     attrib |-> element.attrib,
     children |-> [i \in 1..Len(element.children) |->
                      Written(element.children[i])]]

\* etree.tostring: the text is kept as the tree a parser reads from it
etree_tostring(r) ==
    IF IsRaise(r) THEN Raise(r.exc, r.args)
    ELSE IF r.element = None
    THEN Raise("TypeError", <<Msg("Type 'NoneType' cannot be serialized")>>)
    ELSE [xml |-> Written(r.element)]

\* lines 241-247, given get_xml_annotation(annotation)
XmlSerializeRoot(obj, root, config) ==
    IF IsRaise(root) THEN root
    ELSE IF root.xml.cls # "XMLEntity"
    THEN Raise("TypeError",
               <<Msg("Expected the root value to have an XMLEntity annotation")>>)
    ELSE etree_tostring(_from_obj(obj, root.type, root.xml, None, config))

\* xml serializer.serialize
xml_serialize(obj, annotation, config) ==
    XmlSerializeRoot(obj, get_xml_annotation(annotation), config)

-----------------------------------------------------------------------------
(* The typed JSON serializer (protocol/json/typed_serializer.py) *)

_from_simple_to_json(obj, type_annotation) ==
    IF type_annotation.k \in {"str", "int", "bool", "float", "Decimal"}
    THEN obj
    ELSE Raise("TypeError", <<Msg("Unhandled type")>>)

RECURSIVE _from_value_to_json(_, _, _, _)
RECURSIVE ToJsonUnionLoop(_, _, _, _, _)
RECURSIVE ToJsonListLoop(_, _, _, _, _)
RECURSIVE ToJsonDictLoop(_, _, _, _, _, _)

\* the list comprehension of _from_list_to_json
ToJsonListLoop(items, i, item_type, item_json, config) ==
    IF i > Len(items) THEN VList(<<>>)
    ELSE Cons(_from_value_to_json(items[i], item_type, item_json, config),
              ToJsonListLoop(items, i + 1, item_type, item_json, config))

ToJsonItems(item, items, config) ==
    IF IsRaise(item) THEN item
    ELSE IF IsRaise(items) THEN items
    ELSE ToJsonListLoop(items.items, 1, item.type, item.json, config)

_from_list_to_json(lst, type_annotation, config) ==
    ToJsonItems(get_json_annotation(type_annotation.args[1]), IterItems(lst),
                config)

\* a member that raises is skipped; falling off the loop returns None
ToJsonUnionLoop(obj, members, i, json_annotation, config) ==
    IF i > Len(members) THEN None
    ELSE FirstThatDecodes(
             _from_value_to_json(obj, members[i], json_annotation, config),
             ToJsonUnionLoop(obj, members, i + 1, json_annotation, config))

_from_union_obj_to_json(obj, type_annotation, json_annotation, config) ==
    ToJsonUnionLoop(obj, get_args(type_annotation), 1, json_annotation, config)

\* lines 35-50, given get_args(type_annotation)[:-1]
ToJsonOptionalOf(obj, union_types, json_annotation, config) ==
    IF Len(union_types) = 1
    THEN _from_value_to_json(obj, union_types[1], json_annotation, config)
    ELSE IF Len(union_types) = 0 THEN MakeUnion(union_types)
    ELSE _from_union_obj_to_json(obj, TUnion(union_types), json_annotation,
                                 config)

_from_optional_obj_to_json(obj, type_annotation, json_annotation, config) ==
    IF obj = None THEN None
    ELSE ToJsonOptionalOf(obj,
                          SubSeq(get_args(type_annotation), 1,
                                 Len(get_args(type_annotation)) - 1),
                          json_annotation, config)

\* lines 101-112: the property a member is written to
ToJsonProperty(member, item, config) ==
    IF is_annotated_type(member.annotation)
    THEN IF IsJSONProperty(item.json) THEN item.json
         ELSE Raise("TypeError", <<Msg("<ust be a property")>>)
    ELSE JSONProperty(Rename(config.serialize_key, member.name))

\* lines 114-119, given dct.get(name)
ToJsonMemberOf(value, item, json_property, config) ==
    IF IsRaise(value) THEN value
    ELSE IF item = Unbound THEN UnboundLocalError
    ELSE _from_value_to_json(value, item.type, json_property, config)

\* lines 101-119: the wire value of one member
ToJsonMemberValue(dct, member, item, json_property, config) ==
    IF IsRaise(json_property) THEN json_property
    ELSE ToJsonMemberOf(DictGet(dct, member.name), item, json_property,
                        config)

\* json_obj[json_property.tag] = ..., then the next member
ToJsonDictPut(dct, members, i, item, json_obj, config, json_property, value) ==
    IF IsRaise(value) THEN value
    ELSE ToJsonDictLoop(dct, members, i + 1, item,
                        (json_property.tag :> value) @@ json_obj, config)

\* one iteration, given its json_property
ToJsonDictMember(dct, members, i, item, json_obj, config, json_property) ==
    ToJsonDictPut(dct, members, i, item, json_obj, config, json_property,
                  ToJsonMemberValue(dct, members[i], item, json_property,
                                    config))

\* one iteration, item being this iteration's item annotations
ToJsonDictStep(dct, members, i, item, json_obj, config) ==
    ToJsonDictMember(dct, members, i, item, json_obj, config,
                     ToJsonProperty(members[i], item, config))

\* the loop over the members; item is what the iterations before left in
\* item_type_annotation and item_json_annotation
ToJsonDictLoop(dct, members, i, item, json_obj, config) ==
    IF i > Len(members) THEN VDict(json_obj)
    ELSE ToJsonDictStep(dct, members, i, MemberItem(members[i], item),
                        json_obj, config)

_from_typed_dict_to_json(dct, type_annotation, config) ==
    ToJsonDictLoop(dct, typed_dict_annotation(type_annotation), 1, Unbound,
                   <<>>, config)

_from_value_to_json(value, type_annotation, json_annotation, config) ==
    IF is_simple_type(type_annotation)
    THEN _from_simple_to_json(value, type_annotation)
    ELSE IF is_optional_type(type_annotation)
    THEN _from_optional_obj_to_json(value, type_annotation, json_annotation,
                                    config)
    ELSE IF is_list(type_annotation)
    THEN _from_list_to_json(value, type_annotation, config)
    ELSE IF is_typed_dict(type_annotation)
    THEN _from_typed_dict_to_json(value, type_annotation, config)
    ELSE IF is_union_type(type_annotation)
    THEN _from_union_obj_to_json(value, type_annotation, json_annotation,
                                 config)
    ELSE Raise("TypeError", <<>>)

\* json.dumps can encode the value: Decimal is not JSON serializable
RECURSIVE JsonEncodable(_)
JsonEncodable(obj) ==
    CASE obj.t = "Decimal" -> FALSE
      [] obj.t = "list" ->
             \A i \in 1..Len(obj.items) : JsonEncodable(obj.items[i])
      [] obj.t = "dict" -> \A key \in DOMAIN obj.d : JsonEncodable(obj.d[key])
      [] OTHER -> TRUE

\* json.dumps: the text is kept as the value it encodes
json_dumps(obj) ==
    IF IsRaise(obj) THEN obj
    ELSE IF JsonEncodable(obj) THEN [json |-> obj]
    ELSE Raise("TypeError", <<Msg("Object is not JSON serializable")>>)

\* lines 202-210, given get_json_annotation(annotation)
SerializeRoot(obj, root, config) ==
    IF IsRaise(root) THEN root
    ELSE IF root.json.cls # "JSONValue"
    THEN Raise("TypeError",
               <<Msg("Expected the root value to have an JSONValue annotation")>>)
    ELSE json_dumps(_from_value_to_json(obj, root.type, root.json, config))

\* typed_serializer.serialize
serialize(obj, annotation, config) ==
    SerializeRoot(obj, get_json_annotation(annotation), config)

-----------------------------------------------------------------------------
(* Signatures (inspect.Signature) *)

Parameter(name, annotation, kind, default) ==
    [name |-> name, annotation |-> annotation, kind |-> kind,
     default |-> default]

IsPositional(parameter) ==
    parameter.kind \in {"POSITIONAL_ONLY", "POSITIONAL_OR_KEYWORD"}

\* Signature.bind(*args, **kwargs): positional values go to the positional
\* parameters in order, keyword values to the parameters of their name
RECURSIVE BindLoop(_, _, _, _, _)
BindLoop(parameters, i, a, kw, arguments) ==
    IF i > Len(parameters)
    THEN IF a # <<>>
         THEN Raise("TypeError", <<Msg("too many positional arguments")>>)
         ELSE IF DOMAIN kw # {}
         THEN Raise("TypeError", <<Msg("got an unexpected keyword argument")>>)
         ELSE [arguments |-> arguments]
    ELSE LET p == parameters[i]
         IN  IF a # <<>>
             THEN IF ~IsPositional(p)
                  THEN Raise("TypeError", <<Msg("too many positional arguments")>>)
                  ELSE IF p.name \in DOMAIN kw
                  THEN Raise("TypeError", <<Msg("multiple values for argument")>>)
                  ELSE BindLoop(parameters, i + 1, Tail(a), kw,
                                (p.name :> Head(a)) @@ arguments)
             ELSE IF p.name \in DOMAIN kw
             THEN IF p.kind = "POSITIONAL_ONLY"
                  THEN Raise("TypeError",
                             <<Msg("positional only argument passed as keyword")>>)
                  ELSE BindLoop(parameters, i + 1, a,
                                [n \in DOMAIN kw \ {p.name} |-> kw[n]],
                                (p.name :> kw[p.name]) @@ arguments)
             ELSE IF p.default = Empty
             THEN Raise("TypeError", <<Msg("missing a required argument")>>)
             ELSE BindLoop(parameters, i + 1, a, kw, arguments)

\* BoundArguments.apply_defaults(): only parameters that were not bound
apply_defaults(parameters, arguments) ==
    LET unbound == {i \in 1..Len(parameters) :
                       parameters[i].name \notin DOMAIN arguments}
    IN  [n \in DOMAIN arguments \cup {parameters[i].name : i \in unbound} |->
            IF n \in DOMAIN arguments THEN arguments[n]
            ELSE parameters[CHOOSE i \in unbound : parameters[i].name = n].default]

\* BoundArguments.args: the leading positional parameters' values
RECURSIVE BoundArgs(_, _, _)
BoundArgs(parameters, i, arguments) ==
    IF i > Len(parameters) THEN <<>>
    ELSE IF ~IsPositional(parameters[i]) THEN <<>>
    ELSE IF parameters[i].name \notin DOMAIN arguments THEN <<>>
    ELSE <<arguments[parameters[i].name]>>
             \o BoundArgs(parameters, i + 1, arguments)

\* BoundArguments.kwargs: everything from the first keyword-only parameter on
BoundKwargs(parameters, arguments) ==
    LET started == {i \in 1..Len(parameters) :
                       \E j \in 1..i :
                           \/ ~IsPositional(parameters[j])
                           \/ /\ j < i
                              /\ parameters[j].name \notin DOMAIN arguments}
        names == {parameters[i].name : i \in started} \cap DOMAIN arguments
    IN  [n \in names |-> arguments[n]]

-----------------------------------------------------------------------------
(* arg_builder.make_args *)

\* a faulty placement: positional values are put in front of the earlier ones
PlaceFront(parameter, value, fr) ==
    IF IsPositional(parameter)
    THEN [fr EXCEPT !.args = <<value>> \o @]
    ELSE [fr EXCEPT !.kwargs = (parameter.name :> value) @@ @]

\* lines 72-78: where the resolved value goes
Place(parameter, value, fr) ==
    IF IsPositional(parameter)
    THEN [fr EXCEPT !.args = Append(@, value)]
    ELSE [fr EXCEPT !.kwargs = (parameter.name :> value) @@ @]

\* a faulty list decoding: only the first string of the list is decoded
QueryItemsFirstOnly(values, i, element_type, config) ==
    IF i > Len(values) THEN VList(<<>>)
    ELSE Cons(from_json_value(config, values[i], element_type), VList(<<>>))

\* lines 54-60: the list comprehension over the multi-value list
RECURSIVE QueryItems(_, _, _, _)
QueryItems(values, i, element_type, config) ==
    IF i > Len(values) THEN VList(<<>>)
    ELSE Cons(from_json_value(config, values[i], element_type),
              QueryItems(values, i + 1, element_type, config))

\* a faulty resolution: the query values are consulted before the route match
ResolveQueryFirst(parameter, matches, query, config) ==
    IF parameter.name \in DOMAIN query
    THEN IF is_list(parameter.annotation)
         THEN QueryItems(query[parameter.name], 1,
                         get_args(parameter.annotation)[1], config)
         ELSE from_json_value(config, query[parameter.name][1],
                              parameter.annotation)
    ELSE IF parameter.name \in DOMAIN matches
    THEN from_json_value(config, matches[parameter.name], parameter.annotation)
    ELSE IF is_optional_type(parameter.annotation)
    THEN None
    ELSE Raise("KeyError", <<VStr(parameter.name)>>)

\* a faulty resolution: a parameter found nowhere is given None
ResolveDefaulting(parameter, matches, query, config) ==
    IF parameter.name \in DOMAIN matches
    THEN from_json_value(config, matches[parameter.name], parameter.annotation)
    ELSE IF parameter.name \in DOMAIN query
    THEN IF is_list(parameter.annotation)
         THEN QueryItems(query[parameter.name], 1,
                         get_args(parameter.annotation)[1], config)
         ELSE from_json_value(config, query[parameter.name][1],
                              parameter.annotation)
    ELSE None

\* lines 44-70: the value of a parameter that is not body-typed
Resolve(parameter, matches, query, config) ==
    IF parameter.name \in DOMAIN matches
    THEN from_json_value(config, matches[parameter.name], parameter.annotation)
    ELSE IF parameter.name \in DOMAIN query
    THEN IF is_list(parameter.annotation)
         THEN QueryItems(query[parameter.name], 1,
                         get_args(parameter.annotation)[1], config)
         ELSE from_json_value(config, query[parameter.name][1],
                              parameter.annotation)
    ELSE IF is_optional_type(parameter.annotation)
    THEN None
    ELSE Raise("KeyError", <<VStr(parameter.name)>>)

\* lines 80-83: bind, apply_defaults, return
Returned(parameters, full) ==
    [st |-> "return", args |-> BoundArgs(parameters, 1, full),
     kwargs |-> BoundKwargs(parameters, full)]

Bound(parameters, ba) ==
    IF IsRaise(ba) THEN [st |-> "raise", error |-> ba]
    ELSE Returned(parameters, apply_defaults(parameters, ba.arguments))

Finish(signature, fr) ==
    Bound(signature.parameters,
          BindLoop(signature.parameters, 1, fr.args, fr.kwargs, <<>>))

\* make_args from parameter fr.idx on, up to the next "await body(...)":
\* it is suspended there, has raised, or has returned
RECURSIVE make_args(_, _, _, _, _)
RECURSIVE Placed(_, _, _, _, _, _, _)

\* lines 72-78 for a resolved value, then the next parameter
Placed(signature, matches, query, fr, config, parameter, value) ==
    IF IsRaise(value) THEN [st |-> "raise", error |-> value]
    ELSE make_args(signature, matches, query,
                   Place(parameter, value, [fr EXCEPT !.idx = @ + 1]), config)

make_args(signature, matches, query, fr, config) ==
    IF fr.idx > Len(signature.parameters) THEN Finish(signature, fr)
    ELSE IF is_any_serialization_annotation(
                signature.parameters[fr.idx].annotation)
    THEN [st |-> "await", frame |-> fr]
    ELSE Placed(signature, matches, query, fr, config,
                signature.parameters[fr.idx],
                Resolve(signature.parameters[fr.idx], matches, query, config))

-----------------------------------------------------------------------------
(* The router (rest_router.RestHttpRouter) and its defaults (constants.py) *)

\* media types, in the order the default tables list them
DEFAULT_CONSUMES ==
    <<"application/json", "*/*", "application/x-www-form-urlencoded",
      "multipart/form-data", "application/xml">>

DEFAULT_PRODUCES == <<"application/json", "*/*", "application/xml">>

DEFAULT_XML_SERIALIZER_CONFIG == SerializerConfig("pascalcase", "snakecase")

DEFAULT_SERIALIZER_CONFIG ==
    [m \in {"application/json", "application/xml"} |->
        IF m = "application/json" THEN DEFAULT_JSON_SERIALIZER_CONFIG
        ELSE DEFAULT_XML_SERIALIZER_CONFIG]

\* RestHttpRouter.__init__ with its default arguments
Router ==
    [consumes |-> DEFAULT_CONSUMES,
     produces |-> DEFAULT_PRODUCES,
     serializer_configs |-> DEFAULT_SERIALIZER_CONFIG,
     arg_serializer_config |-> DEFAULT_JSON_SERIALIZER_CONFIG]

InSeq(x, seq) == \E i \in 1..Len(seq) : seq[i] = x

\* {rename(name): value for name, value in dct.items()}
RenameKeys(dct, renamer) ==
    [n \in {Rename(renamer, k) : k \in DOMAIN dct} |->
        dct[CHOOSE k \in DOMAIN dct : Rename(renamer, k) = n]]

HttpResponse(status, content_type) ==
    [k |-> "http", status |-> status, content_type |-> content_type]

Escapes(error) == [k |-> "raise", error |-> error]

BAD_REQUEST == 400
UNSUPPORTED_MEDIA_TYPE == 415
INTERNAL_SERVER_ERROR == 500

\* _get_body_reader: the deserializer the body reader closes over
\* (None for GET), or the KeyError of a media type missing from a table
_get_body_reader(self, method, content_type) ==
    IF method = "GET" THEN [deserializer |-> "None"]
    ELSE LET media_type == IF content_type = "absent" THEN "application/json"
                           ELSE content_type
         IN  IF ~InSeq(media_type, self.consumes)
                \/ media_type \notin DOMAIN self.serializer_configs
             THEN Raise("KeyError", <<[t |-> "bytes", m |-> media_type]>>)
             ELSE [deserializer |-> media_type]

\* lines 289-294: "Failed to make args:" + ". ".join(error.args); join
\* raises TypeError unless every item of args is a str
BadRequest(error) ==
    IF \A i \in 1..Len(error.args) : error.args[i].t = "str"
    THEN HttpResponse(BAD_REQUEST, "text/plain")
    ELSE Escapes(Raise("TypeError",
                       <<Msg("sequence item: expected str instance")>>))

\* a produces serializer (to_json, to_xml): serialize() wants the root marker
\* of its wire format on the return annotation
Serializer(media_type, data, return_annotation) ==
    LET marker == IF media_type = "application/xml" THEN "XMLEntity"
                  ELSE "JSONValue"
    IN  IF is_annotated_type(return_annotation)
           /\ return_annotation.metadata[1].cls = marker
        THEN [t |-> "text", media_type |-> media_type]
        ELSE Raise("TypeError",
                   <<Msg("Expected the root value to have a root annotation")>>)

\* _make_writer, lines 354-363: the loop leaves the last entry of the
\* router's produces table in place when no entry is in accept
WriterMediaType(self, accept_header) ==
    IF accept_header # {}
    THEN IF \E i \in 1..Len(self.produces) : self.produces[i] \in accept_header
         THEN self.produces[CHOOSE i \in 1..Len(self.produces) :
                  /\ self.produces[i] \in accept_header
                  /\ \A j \in 1..(i - 1) : self.produces[j] \notin accept_header]
         ELSE self.produces[Len(self.produces)]
    ELSE self.produces[1]

\* _make_writer: the writer (None without data), or what it raised; calls
\* says whether a serializer was invoked
_make_writer(self, data, accept_header, return_annotation, serializer_configs) ==
    IF data = None THEN [writer |-> None, calls |-> 0]
    ELSE LET media_type == WriterMediaType(self, accept_header)
         IN  IF media_type \notin DOMAIN serializer_configs
             THEN [writer |-> Raise("KeyError", <<[t |-> "bytes", m |-> media_type]>>),
                   calls |-> 0]
             ELSE [writer |-> Serializer(media_type, data, return_annotation),
                   calls |-> 1]

\* rest_callback, lines 318-333: the content type of the response, or
\* "unsupported"
ContentType(produces, accept_header) ==
    IF accept_header = {} THEN produces[1]
    ELSE IF \E i \in 1..Len(produces) : produces[i] \in accept_header
    THEN produces[CHOOSE i \in 1..Len(produces) :
             /\ produces[i] \in accept_header
             /\ \A j \in 1..(i - 1) : produces[j] \notin accept_header]
    ELSE IF "*/*" \in accept_header THEN produces[1]
    ELSE "unsupported"

-----------------------------------------------------------------------------
(* The routes registered with add_rest, and the requests sent to them *)

NameA == <<"a">>
NameBC == <<"b", "_", "c">>
NameN == <<"n">>

Book == [k |-> "TypedDictRef", name |-> "Book"]
JsonBody == TAnnotated(Book, <<JSONValue>>)

Signature(parameters, return_annotation) ==
    [parameters |-> parameters, return_annotation |-> return_annotation]

\* _add_method's closure: what rest_callback reads of its route
Route(method, path_vars, signature, produces, status_code) ==
    [method |-> method, path_vars |-> path_vars, signature |-> signature,
     produces |-> produces, status_code |-> status_code,
     serializer_configs |-> None, arg_serializer_config |-> None]

OK == 200
CREATED == 201

Routes ==
    { \* (a: str, *, b_c: List[int], n: Optional[Decimal] = Decimal('1'))
      Route("GET", {NameA},
            Signature(<<Parameter(NameA, TStr, "POSITIONAL_OR_KEYWORD", Empty),
                        Parameter(NameBC, TList(TInt), "KEYWORD_ONLY", Empty),
                        Parameter(NameN, TOptional(TDecimal), "KEYWORD_ONLY",
                                  VDec(1, 0))>>,
                      TAnnotated(Book, <<JSONValue>>)),
            <<"application/json">>, OK),
      \* (a: int, b_c: int), both from the query string
      Route("GET", {},
            Signature(<<Parameter(NameA, TInt, "POSITIONAL_OR_KEYWORD", Empty),
                        Parameter(NameBC, TInt, "POSITIONAL_OR_KEYWORD", Empty)>>,
                      Book),
            <<"application/json">>, OK),
      \* (a: Union[int, str], /, *, n: Decimal = Decimal('5'))
      Route("GET", {},
            Signature(<<Parameter(NameA, TUnion(<<TInt, TStr>>), "POSITIONAL_ONLY",
                                  Empty),
                        Parameter(NameN, TDecimal, "KEYWORD_ONLY", VDec(5, 0))>>,
                      TAnnotated(Book, <<XMLEntity(NameN)>>)),
            <<"application/xml", "application/json">>, OK),
      \* (a: int, n: Annotated[Book, JSONValue()], *, b_c: Optional[int] = None)
      Route("POST", {NameA},
            Signature(<<Parameter(NameA, TInt, "POSITIONAL_OR_KEYWORD", Empty),
                        Parameter(NameN, JsonBody, "POSITIONAL_OR_KEYWORD", Empty),
                        Parameter(NameBC, TOptional(TInt), "KEYWORD_ONLY",
                                  None)>>,
                      TAnnotated(Book, <<JSONValue>>)),
            <<"application/json", "application/xml">>, CREATED),
      \* two body-typed parameters
      Route("POST", {},
            Signature(<<Parameter(NameA, JsonBody, "POSITIONAL_OR_KEYWORD", Empty),
                        Parameter(NameBC, JsonBody, "KEYWORD_ONLY", Empty)>>,
                      TAnnotated(Book, <<JSONValue>>)),
            <<"application/json">>, OK),
      \* an Annotated parameter without serialization metadata
      Route("GET", {},
            Signature(<<Parameter(NameA, TAnnotated(TInt, <<OtherMetadata>>),
                                  "POSITIONAL_OR_KEYWORD", Empty)>>,
                      TAnnotated(Book, <<JSONValue>>)),
            <<"application/json">>, OK),
      \* (a: int, *, b_c: List[str])
      Route("GET", {},
            Signature(<<Parameter(NameA, TInt, "POSITIONAL_OR_KEYWORD", Empty),
                        Parameter(NameBC, TList(TStr), "KEYWORD_ONLY", Empty)>>,
                      TAnnotated(Book, <<JSONValue>>)),
            <<"application/json">>, OK),
      \* () -> Annotated[Book, JSONValue()], registered as producing XML
      Route("GET", {},
            Signature(<<>>, TAnnotated(Book, <<JSONValue>>)),
            <<"application/xml">>, OK),
      \* (bC: int), path /books/{bC}, registered with
      \* arg_serializer_config=SerializerConfig(camelcase, camelcase)
      [Route("GET", {<<"b", "C">>},
             Signature(<<Parameter(<<"b", "C">>, TInt, "POSITIONAL_OR_KEYWORD",
                                   Empty)>>,
                       TAnnotated(Book, <<JSONValue>>)),
             <<"application/json">>, OK)
          EXCEPT !.arg_serializer_config =
                     SerializerConfig("camelcase", "camelcase")] }

\* the texts clients send
Texts == {<<"4", "2">>, <<"x">>}

QueryLists ==
    UNION {[1..n -> {VStr(t) : t \in Texts}] : n \in 1..MaxQueryLen}

\* the wire names of the parameters the query string may carry
QueryNames(r) ==
    {camelcase(r.signature.parameters[i].name) :
        i \in {j \in 1..Len(r.signature.parameters) :
                  ~is_any_serialization_annotation(
                       r.signature.parameters[j].annotation)}}

ContentTypes(r) ==
    IF r.method = "GET" THEN {"absent"}
    ELSE {"absent", "application/x-www-form-urlencoded", "text/plain"}

\* request.matches holds every path variable, under its path-definition name
Requests(r) ==
    { [matches |-> m, query |-> q, content_type |-> c] :
        m \in [{camelcase(v) : v \in r.path_vars} -> {VStr(t) : t \in Texts}],
        q \in UNION {[D -> QueryLists] : D \in SUBSET QueryNames(r)},
        c \in ContentTypes(r) }

AcceptHeaders ==
    { {}, {"application/json"}, {"application/xml"}, {"*/*"}, {"text/html"},
      {"text/html", "*/*"} }

\* what the body deserializer makes of the request body
BodyOutcomes(annotation) ==
    { [t |-> "body", annotation |-> annotation],
      Raise("KeyError", <<Msg("Required key is missing")>>),
      Raise("UnicodeDecodeError", <<Msg("utf-8"), VInt(0)>>) }

\* RestError(status, message), as rest_callback reads it (lines 298-303)
RestError ==
    [exc |-> "RestError", status |-> 404, message |-> Msg("Not Found"),
     args |-> <<Msg("Not Found")>>]

\* a text/plain response written with text_writer(text)
TextResponse(status, text) ==
    [k |-> "http", status |-> status, content_type |-> "text/plain",
     text |-> text]

\* str(error) of an exception
ExceptionText(error) ==
    IF Len(error.args) = 0 THEN VStr(<<>>)
    ELSE IF Len(error.args) = 1 THEN PyStr(error.args[1])
    ELSE VStr(<<"<args>">>)

\* every failure of the handler is an internal error
HandlerFailedAs500(error) ==
    TextResponse(INTERNAL_SERVER_ERROR, ExceptionText(error))

\* lines 298-309: the two except clauses around "await callback(...)"
HandlerFailed(error) ==
    IF error.exc = "RestError" THEN TextResponse(error.status, error.message)
    ELSE TextResponse(INTERNAL_SERVER_ERROR, ExceptionText(error))

\* what the user callback does
HandlerOutcomes ==
    { [k |-> "return", value |-> None],
      [k |-> "return", value |-> [t |-> "dict", d |-> <<>>]],
      [k |-> "raise", error |-> RestError],
      [k |-> "raise", error |-> Raise("ValueError", <<Msg("boom")>>)] }

-----------------------------------------------------------------------------
(* rest_callback, one action per stretch between two awaits *)

Pending == [k |-> "pending"]
NoFrame == [idx |-> 0, args |-> <<>>, kwargs |-> <<>>]
DzOff == [phase |-> "off"]
TasksOff == [of |-> <<>>, log |-> <<>>]

\* lines 262-266: the argument deserializer's configuration
ArgConfig(self, r) ==
    IF r.arg_serializer_config # None THEN r.arg_serializer_config
    ELSE self.arg_serializer_config

\* lines 270-278: the route matches and query values, keys renamed
RouteArgs(self, req) ==
    RenameKeys(req.matches, self.arg_serializer_config.deserialize_key)

QueryArgs(self, req) ==
    RenameKeys(req.query, self.arg_serializer_config.deserialize_key)

\* make_args runs until it returns, raises or awaits the body read. A GET
\* request's body reader raises before it suspends, inside make_args.
AwaitBody(method, out) ==
    IF out.st = "await" /\ method = "GET"
    THEN [st |-> "raise", reads |-> 1,
          error |-> Raise("RuntimeError", <<Msg("No deserializer")>>)]
    ELSE IF out.st = "await"
    THEN [st |-> "await", reads |-> 1, frame |-> out.frame]
    ELSE IF out.st = "raise"
    THEN [st |-> "raise", reads |-> 0, error |-> out.error]
    ELSE [st |-> "return", reads |-> 0, args |-> out.args,
          kwargs |-> out.kwargs]

RunMakeArgs(self, r, req, fr) ==
    AwaitBody(r.method,
              make_args(r.signature, RouteArgs(self, req), QueryArgs(self, req),
                        fr, ArgConfig(self, r)))

\* lines 281-297: what rest_callback does with the outcome of make_args
AfterMakeArgs(out) ==
    /\ body_reads' = body_reads + out.reads
    /\ CASE out.st = "await" ->
               /\ pc' = "await_body"
               /\ frame' = out.frame
               /\ UNCHANGED <<bound, handler_calls, response>>
         [] out.st = "raise" ->
               /\ pc' = "done"
               /\ frame' = NoFrame
               /\ bound' = [st |-> "raise", error |-> out.error]
               /\ response' = BadRequest(out.error)
               /\ UNCHANGED handler_calls
         [] out.st = "return" ->
               /\ pc' = "await_handler"
               /\ frame' = NoFrame
               /\ bound' = [st |-> "return", args |-> out.args,
                            kwargs |-> out.kwargs]
               /\ handler_calls' = handler_calls + 1
               /\ UNCHANGED response

\* a request arrives: lines 270-288 up to the first await
RestCallbackStart ==
    /\ pc = "idle"
    /\ \E req \in Requests(route) :
        /\ request' = req
        /\ LET reader == _get_body_reader(Router, route.method, req.content_type)
           IN  IF IsRaise(reader)
               THEN /\ pc' = "done"
                    /\ response' = Escapes(reader)
                    /\ UNCHANGED <<frame, bound, body_reads, handler_calls>>
               ELSE AfterMakeArgs(RunMakeArgs(Router, route, req,
                                              [NoFrame EXCEPT !.idx = 1]))
    /\ UNCHANGED <<route, body_results, handler_result, accept,
                   serializer_calls, dz, tasks>>

\* the awaited body read completes: make_args resumes at line 42
BodyReadDone ==
    /\ pc = "await_body"
    /\ LET parameter == route.signature.parameters[frame.idx]
       IN  \E outcome \in BodyOutcomes(parameter.annotation) :
            /\ body_results' = Append(body_results, outcome)
            /\ IF IsRaise(outcome)
               THEN AfterMakeArgs([st |-> "raise", reads |-> 0, error |-> outcome])
               ELSE AfterMakeArgs(
                        RunMakeArgs(Router, route, request,
                                    Place(parameter, outcome,
                                          [frame EXCEPT !.idx = @ + 1])))
    /\ UNCHANGED <<route, request, handler_result, accept, serializer_calls, dz,
                   tasks>>

\* asyncio.CancelledError, thrown into a task at the await it is suspended in
CancelledError == Raise("CancelledError", <<>>)

\* the request task is cancelled during the body read: "await body(...)"
\* (arg_builder.py line 42) raises CancelledError inside make_args, within
\* the try block of lines 281-294
CancelBodyRead ==
    /\ pc = "await_body"
    /\ body_results' = Append(body_results, CancelledError)
    /\ AfterMakeArgs([st |-> "raise", reads |-> 0, error |-> CancelledError])
    /\ UNCHANGED <<route, request, handler_result, accept, serializer_calls, dz,
                   tasks>>

\* lines 311-339: the handler returned body
Respond(body, accept_header) ==
    LET made == _make_writer(Router, body, accept_header,
                             route.signature.return_annotation,
                             IF route.serializer_configs # None
                             THEN route.serializer_configs
                             ELSE Router.serializer_configs)
        content_type == ContentType(route.produces, accept_header)
    IN  /\ serializer_calls' = serializer_calls + made.calls
        /\ response' =
               IF IsRaise(made.writer) THEN Escapes(made.writer)
               ELSE IF content_type = "unsupported"
               THEN TextResponse(UNSUPPORTED_MEDIA_TYPE,
                                 Msg("Unsupported media type"))
               ELSE [k |-> "http", status |-> route.status_code,
                     content_type |-> content_type, writer |-> made.writer]

\* the awaited user callback completes: lines 297-339
HandlerDone ==
    /\ pc = "await_handler"
    /\ pc' = "done"
    /\ \E outcome \in HandlerOutcomes :
        /\ handler_result' = outcome
        /\ IF outcome.k = "raise"
           THEN /\ response' = HandlerFailed(outcome.error)
                /\ UNCHANGED <<accept, serializer_calls>>
           ELSE \E accept_header \in AcceptHeaders :
                    /\ accept' = [k |-> "read", header |-> accept_header]
                    /\ Respond(outcome.value, accept_header)
    /\ UNCHANGED <<route, request, frame, bound, body_reads, body_results,
                   handler_calls, dz, tasks>>

\* add_rest, for one method: _add_method builds rest_callback over the
\* callback's signature and hands it to add_route; neither it nor the
\* swagger entry made next looks at the metadata of an annotation, so every
\* callback is registered
AddRest ==
    /\ pc = "setup"
    /\ route' \in Routes
    /\ pc' = "idle"
    /\ UNCHANGED <<request, frame, bound, body_reads, body_results,
                   handler_calls, handler_result, accept, serializer_calls,
                   response, dz, tasks>>

\* the router as RestHttpRouter.__init__ leaves it: no route yet
Init ==
    /\ route = Pending
    /\ request = Pending
    /\ pc = "setup"
    /\ frame = NoFrame
    /\ bound = Pending
    /\ body_reads = 0
    /\ body_results = <<>>
    /\ handler_calls = 0
    /\ handler_result = Pending
    /\ accept = Pending
    /\ serializer_calls = 0
    /\ response = Pending
    /\ dz = DzOff
    /\ tasks = TasksOff

Next ==
    \/ AddRest
    \/ RestCallbackStart
    \/ BodyReadDone
    \/ CancelBodyRead
    \/ HandlerDone

Spec == Init /\ [][Next]_vars

-----------------------------------------------------------------------------
(* Two requests for one route, each in its own rest_callback: the calls  *)
(* take turns at "await body(...)" (arg_builder.py line 42)               *)

Tasks == {1, 2}

\* a rest_callback that has not been called yet
IdleTask ==
    [pc |-> "idle", request |-> Pending, frame |-> NoFrame, bound |-> Pending,
     body_results |-> <<>>]

\* the requests of the two clients: one value for each query name
PairRequests(r) ==
    { req \in Requests(r) :
        /\ req.content_type = "absent"
        /\ \A n \in DOMAIN req.query : Len(req.query[n]) = 1 }

\* what the body deserializer makes of the body of request i
PairBodyOutcomes(i, annotation) ==
    { [t |-> "body", annotation |-> annotation, of |-> i],
      Raise("KeyError", <<Msg("Required key is missing")>>) }

\* make_args' locals are shared by all calls: a faulty suspension
SuspendShared(ts, i, req, results, fr) ==
    [j \in Tasks |->
        IF j = i
        THEN [pc |-> "await_body", request |-> req, frame |-> fr,
              bound |-> Pending, body_results |-> results]
        ELSE IF ts[j].pc = "await_body"
        THEN [ts[j] EXCEPT !.frame.args = fr.args, !.frame.kwargs = fr.kwargs]
        ELSE ts[j]]

\* arg_builder.py lines 37-42: args and kwargs are locals of the call, kept
\* in its own frame while it awaits the body
Suspend(ts, i, req, results, fr) ==
    [ts EXCEPT ![i] = [pc |-> "await_body", request |-> req, frame |-> fr,
                       bound |-> Pending, body_results |-> results]]

\* rest_router.py lines 281-294: what call i does with the outcome of make_args
TaskAfter(ts, i, req, results, out) ==
    IF out.st = "await" THEN Suspend(ts, i, req, results, out.frame)
    ELSE [ts EXCEPT ![i] =
             [pc |-> "done", request |-> req, frame |-> NoFrame,
              bound |-> IF out.st = "raise"
                        THEN [st |-> "raise", error |-> out.error]
                        ELSE [st |-> "return", args |-> out.args,
                              kwargs |-> out.kwargs],
              body_results |-> results]]

\* request i arrives: rest_callback up to the first await
TaskStart(i) ==
    /\ pc = "idle"
    /\ tasks.of[i].pc = "idle"
    /\ \E req \in PairRequests(route) :
           tasks' = [of |-> TaskAfter(tasks.of, i, req, <<>>,
                                      RunMakeArgs(Router, route, req,
                                                  [NoFrame EXCEPT !.idx = 1])),
                     log |-> Append(tasks.log, i)]
    /\ UNCHANGED <<route, request, pc, frame, bound, body_reads, body_results,
                   handler_calls, handler_result, accept, serializer_calls,
                   response, dz>>

\* make_args of call i resumed with what its body read returned or raised
TaskResumed(ts, i, parameter, outcome) ==
    IF IsRaise(outcome)
    THEN TaskAfter(ts, i, ts[i].request, Append(ts[i].body_results, outcome),
                   [st |-> "raise", error |-> outcome])
    ELSE TaskAfter(ts, i, ts[i].request, Append(ts[i].body_results, outcome),
                   RunMakeArgs(Router, route, ts[i].request,
                               Place(parameter, outcome,
                                     [ts[i].frame EXCEPT !.idx = @ + 1])))

\* the body read of request i completes
TaskBodyReadDone(i) ==
    /\ tasks.of[i].pc = "await_body"
    /\ \E outcome \in PairBodyOutcomes(i,
              route.signature.parameters[tasks.of[i].frame.idx].annotation) :
           tasks' = [of |-> TaskResumed(tasks.of, i,
                                        route.signature.parameters[
                                            tasks.of[i].frame.idx],
                                        outcome),
                     log |-> Append(tasks.log, i)]
    /\ UNCHANGED <<route, request, pc, frame, bound, body_reads, body_results,
                   handler_calls, handler_result, accept, serializer_calls,
                   response, dz>>

InitPair ==
    /\ route = Pending
    /\ request = Pending
    /\ pc = "setup"
    /\ frame = NoFrame
    /\ bound = Pending
    /\ body_reads = 0
    /\ body_results = <<>>
    /\ handler_calls = 0
    /\ handler_result = Pending
    /\ accept = Pending
    /\ serializer_calls = 0
    /\ response = Pending
    /\ dz = DzOff
    /\ tasks = [of |-> [i \in Tasks |-> IdleTask], log |-> <<>>]

NextPair ==
    \/ AddRest
    \/ \E i \in Tasks : TaskStart(i)
    \/ \E i \in Tasks : TaskBodyReadDone(i)

SpecPair == InitPair /\ [][NextPair]_vars

\* make_args of one request run with nothing else going on: each body read
\* is answered at once with the next of results
RECURSIVE AloneFrom(_, _, _, _, _)
AloneFrom(r, req, out, results, k) ==
    IF out.st = "await"
    THEN IF k > Len(results) THEN Pending
         ELSE IF IsRaise(results[k])
         THEN [st |-> "raise", error |-> results[k]]
         ELSE AloneFrom(r, req,
                        RunMakeArgs(Router, r, req,
                                    Place(r.signature.parameters[out.frame.idx],
                                          results[k],
                                          [out.frame EXCEPT !.idx = @ + 1])),
                        results, k + 1)
    ELSE IF out.st = "raise" THEN [st |-> "raise", error |-> out.error]
    ELSE [st |-> "return", args |-> out.args, kwargs |-> out.kwargs]

Alone(r, req, results) ==
    AloneFrom(r, req, RunMakeArgs(Router, r, req, [NoFrame EXCEPT !.idx = 1]),
              results, 1)

-----------------------------------------------------------------------------
(* The engines on their own: a value and an annotation go in, a value or *)
(* an error comes out                                                    *)

\* the wire texts
DzTexts == {<<"4", "2">>, <<"x">>, <<"4", ".", "2">>, <<>>}

DzValues ==
    {VStr(t) : t \in DzTexts}
        \cup {VInt(42), VInt(0), VBool(TRUE), VBool(FALSE), None, VList(<<>>),
              VList(<<VStr(<<"4", "2">>), VStr(<<"x">>)>>)}

DzAnnotations ==
    { TInt, TStr, TDecimal,
      TUnion(<<TInt, TStr>>), TUnion(<<TStr, TInt>>),
      TUnion(<<TInt, TDecimal>>), TUnion(<<TDecimal, TInt>>),
      TUnion(<<TBool, TInt, TDecimal>>),
      TOptional(TInt), TOptional(TBool), TUnion(<<TInt, TDecimal, NoneType>>),
      TList(TInt), TList(TAnnotated(TInt, <<JSONValue>>)),
      TUnion(<<TList(TInt), TList(TStr)>>),
      TUnion(<<TList(TInt), TStr>>) }

DzElements ==
    { Element(NameN, text, attrib) :
        text \in {None} \cup {VStr(t) : t \in DzTexts},
        attrib \in {<<>>, (NameA :> VStr(<<"4", "2">>)), (NameA :> VStr(<<"x">>))} }

DzXmlAnnotations == {XMLEntity(NameN), XMLAttribute(NameA)}

NameBook == <<"B", "o", "o", "k">>
NamebC == <<"b", "C">>

\* typed dicts with JSON metadata
\* class Ann(TypedDict): a: Annotated[int, JSONProperty("a")];
\*                       n: Annotated[Optional[int], JSONProperty("n")]
JsonAnn ==
    TypedDict(<<"Ann">>,
        <<TypedDictMember(NameA, TAnnotated(TInt, <<JSONProperty(NameA)>>),
                          Empty),
          TypedDictMember(NameN,
                          TAnnotated(TOptional(TInt), <<JSONProperty(NameN)>>),
                          Empty)>>)

\* class Mixed(TypedDict): n: Annotated[Optional[int], JSONProperty("n")];
\*                         b_c: int
JsonMixed ==
    TypedDict(<<"Mixed">>,
        <<TypedDictMember(NameN,
                          TAnnotated(TOptional(TInt), <<JSONProperty(NameN)>>),
                          Empty),
          TypedDictMember(NameBC, TInt, Empty)>>)

\* class Plain(TypedDict): a: int; n: Optional[int]
JsonPlain ==
    TypedDict(<<"Plain">>,
        <<TypedDictMember(NameA, TInt, Empty),
          TypedDictMember(NameN, TOptional(TInt), Empty)>>)

\* class Defaulted(TypedDict): a: Annotated[int, JSONProperty("a")] = 42;
\*                             n: Annotated[int, JSONValue()]
JsonDefaulted ==
    TypedDict(<<"Defaulted">>,
        <<TypedDictMember(NameA, TAnnotated(TInt, <<JSONProperty(NameA)>>),
                          VInt(42)),
          TypedDictMember(NameN, TAnnotated(TInt, <<JSONValue>>), Empty)>>)

DzJsonRecords == {JsonAnn, JsonMixed, JsonPlain, JsonDefaulted}

\* class Full(TypedDict):
\*     a: Annotated[Union[int, str], JSONProperty("a")]
\*     n: Annotated[Optional[int], JSONProperty("n")]
\*     b_c: Annotated[List[Annotated[int, JSONValue()]], JSONProperty("bC")]
\*     Book: Annotated[Ann, JSONProperty("Book")]
JsonFull ==
    TypedDict(<<"Full">>,
        <<TypedDictMember(NameA,
                          TAnnotated(TUnion(<<TInt, TStr>>),
                                     <<JSONProperty(NameA)>>),
                          Empty),
          TypedDictMember(NameN,
                          TAnnotated(TOptional(TInt), <<JSONProperty(NameN)>>),
                          Empty),
          TypedDictMember(NameBC,
                          TAnnotated(TList(TAnnotated(TInt, <<JSONValue>>)),
                                     <<JSONProperty(NamebC)>>),
                          Empty),
          TypedDictMember(NameBook,
                          TAnnotated(JsonAnn, <<JSONProperty(NameBook)>>),
                          Empty)>>)

\* the values of the typed dicts: every member set
AnnValues ==
    { VDict((NameA :> a) @@ (NameN :> n)) :
        a \in {VInt(42), VInt(0)}, n \in {VInt(42), VInt(0), None} }

MixedValues ==
    { VDict((NameN :> n) @@ (NameBC :> b_c)) :
        n \in {VInt(42), None}, b_c \in {VInt(42), VInt(0)} }

FullValues ==
    { VDict((NameA :> a) @@ (NameN :> n) @@ (NameBC :> VList(b_c))
                @@ (NameBook :> book)) :
        a \in {VInt(42), VStr(<<"x">>), VStr(<<"4", "2">>)},
        n \in {VInt(42), VInt(0), None},
        b_c \in {<<>>, <<VInt(42), VInt(0)>>},
        book \in {VDict((NameA :> VInt(42)) @@ (NameN :> None)),
                  VDict((NameA :> VInt(0)) @@ (NameN :> VInt(42)))} }

\* class Full(TypedDict):
\*     a: Annotated[Optional[int], XMLAttribute("a")]
\*     n: Annotated[Optional[int], XMLEntity("n")]
\*     b_c: Annotated[List[Annotated[int, XMLEntity("bC")]], XMLEntity("bC")]
\*     Book: Annotated[List[Annotated[Union[int, str], XMLEntity("n")]],
\*                     XMLEntity("Book")]
XmlFull ==
    TypedDict(<<"Full">>,
        <<TypedDictMember(NameA,
                          TAnnotated(TOptional(TInt), <<XMLAttribute(NameA)>>),
                          Empty),
          TypedDictMember(NameN,
                          TAnnotated(TOptional(TInt), <<XMLEntity(NameN)>>),
                          Empty),
          TypedDictMember(NameBC,
              TAnnotated(TList(TAnnotated(TInt, <<XMLEntity(NamebC)>>)),
                         <<XMLEntity(NamebC)>>),
              Empty),
          TypedDictMember(NameBook,
              TAnnotated(TList(TAnnotated(TUnion(<<TInt, TStr>>),
                                          <<XMLEntity(NameN)>>)),
                         <<XMLEntity(NameBook)>>),
              Empty)>>)

XmlFullValues ==
    { VDict((NameA :> a) @@ (NameN :> n) @@ (NameBC :> VList(b_c))
                @@ (NameBook :> VList(book))) :
        a \in {VInt(42), None},
        n \in {VInt(42), None},
        b_c \in {<<>>, <<VInt(42), VInt(0)>>},
        book \in {<<>>, <<VStr(<<"x">>)>>, <<VInt(42), VStr(<<"4", "2">>)>>} }

\* what is serialized to XML and read back
DzXmlRoundTrips ==
    XmlFullValues \X {TAnnotated(XmlFull, <<XMLEntity(NameBook)>>)}

\* what is serialized and read back: a value and its root annotation
DzJsonRoundTrips ==
    (AnnValues \X {TAnnotated(JsonAnn, <<JSONValue>>)})
        \cup (MixedValues \X {TAnnotated(JsonMixed, <<JSONValue>>)})
        \cup (FullValues \X {TAnnotated(JsonFull, <<JSONValue>>)})

\* JSON objects: any of the keys a, n, b_c, bC with a value each
DzKeys == {NameA, NameN, NameBC, NamebC}
DzMemberValues == {VInt(42), VInt(0), None, VStr(<<"x">>)}
DzObjects ==
    { VDict(d) : d \in UNION { [keys -> DzMemberValues] :
                                    keys \in {ks \in SUBSET DzKeys :
                                                  Cardinality(ks) <= MaxKeys} } }

\* typed dicts with XML metadata
\* class Req(TypedDict): a: Annotated[int, XMLAttribute("a")];
\*                       n: Annotated[int, XMLEntity("n")]
XmlReq ==
    TypedDict(<<"Req">>,
        <<TypedDictMember(NameA, TAnnotated(TInt, <<XMLAttribute(NameA)>>),
                          Empty),
          TypedDictMember(NameN, TAnnotated(TInt, <<XMLEntity(NameN)>>),
                          Empty)>>)

\* class Opt(TypedDict): a: Annotated[Optional[int], XMLAttribute("a")];
\*                       n: Annotated[Optional[int], XMLEntity("n")]
XmlOpt ==
    TypedDict(<<"Opt">>,
        <<TypedDictMember(NameA,
                          TAnnotated(TOptional(TInt), <<XMLAttribute(NameA)>>),
                          Empty),
          TypedDictMember(NameN,
                          TAnnotated(TOptional(TInt), <<XMLEntity(NameN)>>),
                          Empty)>>)

\* class Defaulted(TypedDict): n: Annotated[int, XMLEntity("n")] = 42
XmlDefaulted ==
    TypedDict(<<"Defaulted">>,
        <<TypedDictMember(NameN, TAnnotated(TInt, <<XMLEntity(NameN)>>),
                          VInt(42))>>)

\* class Siblings(TypedDict):
\*     n: Annotated[List[Annotated[int, XMLEntity("n")]], XMLEntity("n")]
XmlSiblings ==
    TypedDict(<<"Siblings">>,
        <<TypedDictMember(NameN,
              TAnnotated(TList(TAnnotated(TInt, <<XMLEntity(NameN)>>)),
                         <<XMLEntity(NameN)>>),
              Empty)>>)

\* class Nested(TypedDict):
\*     a: Annotated[List[Annotated[int, XMLEntity("n")]], XMLEntity("a")]
XmlNested ==
    TypedDict(<<"Nested">>,
        <<TypedDictMember(NameA,
              TAnnotated(TList(TAnnotated(TInt, <<XMLEntity(NameN)>>)),
                         <<XMLEntity(NameA)>>),
              Empty)>>)

\* class Item(TypedDict): n: Annotated[int, XMLEntity("n")]
XmlItem ==
    TypedDict(<<"Item">>,
        <<TypedDictMember(NameN, TAnnotated(TInt, <<XMLEntity(NameN)>>),
                          Empty)>>)

\* class Items(TypedDict):
\*     a: Annotated[List[Annotated[Item, XMLEntity("n")]], XMLEntity("a")]
XmlItems ==
    TypedDict(<<"Items">>,
        <<TypedDictMember(NameA,
              TAnnotated(TList(TAnnotated(XmlItem, <<XMLEntity(NameN)>>)),
                         <<XMLEntity(NameA)>>),
              Empty)>>)

DzXmlRecords == {XmlReq, XmlOpt, XmlDefaulted, XmlSiblings, XmlNested, XmlItems}

\* <tag>text</tag> and <tag>children</tag>
Leaf(tag, text) == ElementTree(tag, VStr(text), <<>>, <<>>)
Branch(tag, children) == ElementTree(tag, None, <<>>, children)

\* what the root element of a document holds
DzChildren ==
    { <<>>,
      <<Leaf(NameN, <<"4", "2">>)>>,
      <<Leaf(NameN, <<"x">>)>>,
      <<Branch(NameN, <<>>)>>,
      <<Leaf(NamebC, <<"4", "2">>)>>,
      <<Leaf(NameN, <<"4", "2">>), Leaf(NameN, <<"0">>)>>,
      <<Branch(NameA, <<>>)>>,
      <<Branch(NameA, <<Leaf(NameN, <<"4", "2">>), Leaf(NameN, <<"0">>)>>)>>,
      <<Branch(NameA, <<Leaf(NameN, <<"4", "2">>),
                        Branch(NamebC, <<Leaf(NameN, <<"0">>)>>)>>)>>,
      <<Branch(NameA, <<Branch(NameN, <<Leaf(NameN, <<"4", "2">>)>>),
                        Branch(NameN, <<Leaf(NameN, <<"0">>)>>)>>)>> }

\* parsed documents: a root element Book
DzTrees ==
    { ElementTree(NameBook, None, attrib, children) :
        attrib \in {<<>>, (NameA :> VStr(<<"4", "2">>)),
                    (NameA :> VStr(<<"x">>))},
        children \in DzChildren }

\* what the XML deserializer is run on: element, root annotation, type
DzXmlCases ==
    (DzElements \X DzXmlAnnotations \X DzAnnotations)
        \cup (DzTrees \X {XMLEntity(NameBook)} \X DzXmlRecords)

\* what the typed JSON deserializer is run on
DzJsonCases ==
    (DzValues \X DzAnnotations)
        \cup ((DzObjects \cup DzValues) \X DzJsonRecords)

\* these functions take no annotation
NoAnnotation == [k |-> "none"]

Done(engine, input, annotation, wire, result) ==
    [phase |-> "done", engine |-> engine, input |-> input,
     annotation |-> annotation, wire |-> wire, result |-> result]

\* typed_deserializer.from_json_value
DeserializeJson ==
    /\ dz.phase = "ready"
    /\ \E case \in DzJsonCases :
           dz' = Done("typed_json", case[1], case[2], JSONValue,
                      from_json_value(DEFAULT_JSON_SERIALIZER_CONFIG, case[1],
                                      case[2]))
    /\ UNCHANGED router_vars

\* coercion.from_json_value
CoerceJson ==
    /\ dz.phase = "ready"
    /\ \E value \in DzValues, annotation \in DzAnnotations :
           dz' = Done("coercion", value, annotation, JSONValue,
                      coercion_from_json_value(value, annotation))
    /\ UNCHANGED router_vars

\* xml deserialize, from the parsed root element on
DeserializeXml ==
    /\ dz.phase = "ready"
    /\ \E case \in DzXmlCases :
           dz' = Done("xml", case[1], case[3], case[2],
                      _to_obj(case[1], case[3], case[2],
                              DEFAULT_XML_SERIALIZER_CONFIG))
    /\ UNCHANGED router_vars

\* typed_serializer.serialize, up to json.dumps
SerializeJson ==
    /\ dz.phase = "ready"
    /\ \E value \in DzValues, annotation \in DzAnnotations :
           dz' = Done("to_json", value, annotation, JSONValue,
                      _from_value_to_json(value, annotation, JSONValue,
                                          DEFAULT_JSON_SERIALIZER_CONFIG))
    /\ UNCHANGED router_vars

\* what deserialize makes of the text serialize wrote
ReadBack(text, annotation, config) ==
    IF IsRaise(text) THEN text ELSE deserialize(text, annotation, config)

RoundTripped(engine, obj, annotation, text, config) ==
    Done(engine, obj, annotation, text, ReadBack(text, annotation, config))

\* what xml deserialize makes of the text xml serialize wrote
XmlReadBack(text, annotation, config) ==
    IF IsRaise(text) THEN text ELSE xml_deserialize(text, annotation, config)

XmlRoundTripped(obj, annotation, text, config) ==
    Done("xml_round_trip", obj, annotation, text,
         XmlReadBack(text, annotation, config))

\* xml serializer.serialize, then xml deserializer.deserialize
RoundTripXml ==
    /\ dz.phase = "ready"
    /\ \E case \in DzXmlRoundTrips :
           dz' = XmlRoundTripped(case[1], case[2],
                                 xml_serialize(case[1], case[2],
                                               DEFAULT_XML_SERIALIZER_CONFIG),
                                 DEFAULT_XML_SERIALIZER_CONFIG)
    /\ UNCHANGED router_vars

\* typed_serializer.serialize, then typed_deserializer.deserialize
RoundTripJson ==
    /\ dz.phase = "ready"
    /\ \E case \in DzJsonRoundTrips :
           dz' = RoundTripped("json_round_trip", case[1], case[2],
                              serialize(case[1], case[2],
                                        DEFAULT_JSON_SERIALIZER_CONFIG),
                              DEFAULT_JSON_SERIALIZER_CONFIG)
    /\ UNCHANGED router_vars

\* text that is no document of either wire format
NoDocument == [garbled |-> <<"<", "{">>]

\* top-level annotations: the root marker, other metadata, and no metadata
DzJsonRoots ==
    { TAnnotated(TInt, <<JSONValue>>), TAnnotated(JsonAnn, <<JSONValue>>),
      TAnnotated(TInt, <<JSONProperty(NameA)>>),
      TAnnotated(JsonAnn, <<JSONProperty(NameBook)>>), TInt, JsonAnn }

DzXmlRoots ==
    { TAnnotated(TInt, <<XMLEntity(NameBook)>>),
      TAnnotated(XmlReq, <<XMLEntity(NameBook)>>),
      TAnnotated(TInt, <<XMLAttribute(NameA)>>),
      TAnnotated(XmlReq, <<XMLAttribute(NameBook)>>), TInt, XmlReq }

\* objects handed to the serializers, some of which no annotation here fits
DzRootObjects ==
    {VInt(42), VStr(<<"x">>), None, VDict((NameA :> VInt(42)) @@ (NameN :> None))}

\* texts handed to the deserializers
DzJsonTexts == {[json |-> v] : v \in DzRootObjects} \cup {NoDocument}

DzXmlTexts ==
    { [xml |-> ElementTree(NameBook, text, attrib, <<>>)] :
        text \in {None, VStr(<<"4", "2">>)},
        attrib \in {<<>>, (NameA :> VStr(<<"4", "2">>))} }
        \cup {NoDocument}

\* typed_serializer.serialize
SerializeJsonRoot ==
    /\ dz.phase = "ready"
    /\ \E obj \in DzRootObjects, annotation \in DzJsonRoots :
           dz' = Done("serialize", obj, annotation, JSONValue,
                      serialize(obj, annotation, DEFAULT_JSON_SERIALIZER_CONFIG))
    /\ UNCHANGED router_vars

\* typed_deserializer.deserialize
DeserializeJsonRoot ==
    /\ dz.phase = "ready"
    /\ \E text \in DzJsonTexts, annotation \in DzJsonRoots :
           dz' = Done("deserialize", text, annotation, JSONValue,
                      deserialize(text, annotation,
                                  DEFAULT_JSON_SERIALIZER_CONFIG))
    /\ UNCHANGED router_vars

\* typed_deserializer.from_json_value, with an Annotated root
FromJsonValueRoot ==
    /\ dz.phase = "ready"
    /\ \E json_value \in DzRootObjects, annotation \in DzJsonRoots :
           dz' = Done("from_json_value", json_value, annotation, JSONValue,
                      from_json_value(DEFAULT_JSON_SERIALIZER_CONFIG,
                                      json_value, annotation))
    /\ UNCHANGED router_vars

\* xml serializer.serialize
SerializeXmlRoot ==
    /\ dz.phase = "ready"
    /\ \E obj \in DzRootObjects, annotation \in DzXmlRoots :
           dz' = Done("xml_serialize", obj, annotation, JSONValue,
                      xml_serialize(obj, annotation,
                                    DEFAULT_XML_SERIALIZER_CONFIG))
    /\ UNCHANGED router_vars

\* xml deserializer.deserialize
DeserializeXmlRoot ==
    /\ dz.phase = "ready"
    /\ \E text \in DzXmlTexts, annotation \in DzXmlRoots :
           dz' = Done("xml_deserialize", text, annotation, JSONValue,
                      xml_deserialize(text, annotation,
                                      DEFAULT_XML_SERIALIZER_CONFIG))
    /\ UNCHANGED router_vars

\* the timestamps that are encoded: three moments, milliseconds of one,
\* two and three digits, naive and with an offset of either sign
DzMoments ==
    { <<1967, 8, 12, 15, 42, 12>>, <<2014, 1, 1, 23, 28, 56>>,
      <<2014, 2, 1, 9, 28, 56>> }

DzMillis == {0, 5, 42, 100, 321, 782, 999}

DzOffsets == {None, Timedelta(0), Timedelta(19800), Timedelta(0 - 36000)}

DzTimestamps ==
    { Datetime(m[1], m[2], m[3], m[4], m[5], m[6], millis * 1000, utcoffset) :
        m \in DzMoments, millis \in DzMillis, utcoffset \in DzOffsets }

\* the texts that are decoded: a moment, a fraction or none, and a zone
DzStems ==
    { <<"2", "0", "1", "4", "-", "0", "1", "-", "0", "1", "T", "2", "3", ":", "2", "8", ":", "5", "6">>,
      <<"2", "0", "1", "4", "-", "0", "2", "-", "0", "1", "T", "0", "9", ":", "2", "8", ":", "5", "6">> }

DzFractions ==
    { <<>>, <<".", "7", "8", "2">>, <<".", "3", "2", "1">>,
      <<".", "0", "0", "5">>, <<".", "0", "5", "0">>, <<".", "0", "0", "0">>,
      <<".", "1", "0", "0">>, <<".", "5">>,
      <<".", "1", "2", "3", "4", "5", "6", "7">> }

DzZones ==
    { <<"Z">>, <<"-", "1", "0", ":", "0", "0">>, <<"+", "0", "0", ":", "0", "0">>,
      <<"+", "0", "5", ":", "3", "0">>, <<"-", "0", "0", ":", "0", "0">>,
      <<"+", "0", "5", ":", "6", "0">>, <<>> }

DzTimestampTexts ==
    { VStr(stem \o fraction \o zone) :
        stem \in DzStems, fraction \in DzFractions, zone \in DzZones }
        \cup {VStr(<<"x">>), VInt(42)}

\* datetime_to_json, then json_to_datetime of the text
EncodeDatetime ==
    /\ dz.phase = "ready"
    /\ \E timestamp \in DzTimestamps :
           dz' = Done("datetime_round_trip", timestamp, [k |-> "datetime"],
                      datetime_to_json(timestamp),
                      json_to_datetime(datetime_to_json(timestamp)))
    /\ UNCHANGED router_vars

\* datetime_to_json of what json_to_datetime returned: None has no year
EncodedBack(timestamp) ==
    IF IsRaise(timestamp) THEN timestamp
    ELSE IF timestamp = None
    THEN Raise("AttributeError", <<Msg("object has no attribute 'year'")>>)
    ELSE datetime_to_json(timestamp)

\* json_to_datetime, then datetime_to_json of the timestamp
DecodeDatetime ==
    /\ dz.phase = "ready"
    /\ \E text \in DzTimestampTexts :
           dz' = Done("text_round_trip", text, [k |-> "datetime"],
                      json_to_datetime(text),
                      EncodedBack(json_to_datetime(text)))
    /\ UNCHANGED router_vars

\* class Stamped(TypedDict): a: Annotated[datetime, JSONProperty("a")]
JsonStamped ==
    TypedDict(<<"Stamped">>,
        <<TypedDictMember(NameA, TAnnotated(TDatetime, <<JSONProperty(NameA)>>),
                          Empty)>>)

\* class Stamped(TypedDict): a: Annotated[datetime, XMLEntity("a")]
XmlStamped ==
    TypedDict(<<"Stamped">>,
        <<TypedDictMember(NameA, TAnnotated(TDatetime, <<XMLEntity(NameA)>>),
                          Empty)>>)

\* typed_deserializer.from_json_value of {"a": value} with a: datetime
DecodeJsonTimestamp ==
    /\ dz.phase = "ready"
    /\ \E value \in DzTimestampTexts :
           dz' = Done("json_timestamp", value, JsonStamped,
                      VDict(NameA :> value),
                      from_json_value(DEFAULT_JSON_SERIALIZER_CONFIG,
                                      VDict(NameA :> value), JsonStamped))
    /\ UNCHANGED router_vars

\* xml _to_obj of <Book><a>text</a></Book> with a: datetime
DecodeXmlTimestamp ==
    /\ dz.phase = "ready"
    /\ \E value \in {v \in DzTimestampTexts : v.t = "str"} :
           dz' = Done("xml_timestamp", value, XmlStamped,
                      Branch(NameBook, <<Leaf(NameA, value.s)>>),
                      _to_obj(Branch(NameBook, <<Leaf(NameA, value.s)>>),
                              XmlStamped, XMLEntity(NameBook),
                              DEFAULT_XML_SERIALIZER_CONFIG))
    /\ UNCHANGED router_vars

\* the objects the renamers are run on: string keys in snake_case and not,
\* the empty key and a key that is no string, up to three levels deep
NameABC == <<"a", "_", "b", "_", "c">>
NameA1 == <<"a", "_", "1">>

DzRenameKeys ==
    {VStr(NameA), VStr(NameBC), VStr(NameABC), VStr(NameA1), VStr(NamebC),
     VStr(<<>>), VInt(200)}

DzRenameLeaves == {VInt(42), VStr(NameBC)}

DzInnerDicts ==
    {DictOf(<<Item(key, value)>>) : key \in DzRenameKeys, value \in DzRenameLeaves}

DzInnerLists ==
    {VList(<<>>)}
        \cup {VList(<<d>>) : d \in DzInnerDicts}
        \cup {VList(<<d, e>>) : d \in DzInnerDicts, e \in DzInnerDicts}

DzRenameObjects ==
    {DictOf(<<Item(key, value)>>) :
        key \in DzRenameKeys,
        value \in DzRenameLeaves \cup DzInnerDicts \cup DzInnerLists}
        \cup {DictOf(<<Item(pair[1], value), Item(pair[2], other)>>) :
                pair \in {p \in DzRenameKeys \X DzRenameKeys : p[1] # p[2]},
                value \in DzRenameLeaves \cup DzInnerDicts,
                other \in DzRenameLeaves \cup DzInnerDicts}

\* camelize_object, and underscore_object of what it returned
CamelizeBack(camelized) ==
    IF IsRaise(camelized) THEN camelized ELSE underscore_object(camelized)

CamelizeObject ==
    /\ dz.phase = "ready"
    /\ \E obj \in DzRenameObjects :
           dz' = Done("camelize_object", obj, NoAnnotation,
                      camelize_object(obj),
                      CamelizeBack(camelize_object(obj)))
    /\ UNCHANGED router_vars

\* underscore_object
UnderscoreObject ==
    /\ dz.phase = "ready"
    /\ \E obj \in DzRenameObjects :
           dz' = Done("underscore_object", obj, NoAnnotation,
                      underscore_object(obj), underscore_object(obj))
    /\ UNCHANGED router_vars

\* the raises entries of handler docstrings: "RestError: 404, no" and others
DzRaisesTypes == {"RestError", "HTTPError", "KeyError"}

DzRaisesDescriptions ==
    {<<"4", "0", "4", ",", " ", "n", "o">>, <<" ", "4", "0", "0", " ", ",", "n">>,
     <<"4", "0", "4">>, <<"n", "o", ",", " ", "n">>, <<"n", "o">>}

DzRaises ==
    {DocstringRaises(type_name, description) :
        type_name \in DzRaisesTypes, description \in DzRaisesDescriptions}

DzDocstringRaises ==
    {<<>>} \cup {<<r>> : r \in DzRaises} \cup (DzRaises \X DzRaises)

\* swagger.errors.gather_error_responses
GatherErrorResponses ==
    /\ dz.phase = "ready"
    /\ \E docstring_raises \in DzDocstringRaises :
           dz' = Done("gather_error_responses", docstring_raises,
                      NoAnnotation, None,
                      gather_error_responses(docstring_raises))
    /\ UNCHANGED router_vars

InitDeser ==
    /\ route = Pending
    /\ request = Pending
    /\ pc = "idle"
    /\ frame = NoFrame
    /\ bound = Pending
    /\ body_reads = 0
    /\ body_results = <<>>
    /\ handler_calls = 0
    /\ handler_result = Pending
    /\ accept = Pending
    /\ serializer_calls = 0
    /\ response = Pending
    /\ dz = [phase |-> "ready"]
    /\ tasks = TasksOff

NextDeser ==
    \/ DeserializeJson
    \/ CoerceJson
    \/ DeserializeXml
    \/ SerializeJson
    \/ RoundTripJson
    \/ RoundTripXml
    \/ SerializeJsonRoot
    \/ DeserializeJsonRoot
    \/ FromJsonValueRoot
    \/ SerializeXmlRoot
    \/ DeserializeXmlRoot
    \/ EncodeDatetime
    \/ DecodeDatetime
    \/ DecodeJsonTimestamp
    \/ DecodeXmlTimestamp
    \/ CamelizeObject
    \/ UnderscoreObject
    \/ GatherErrorResponses

SpecDeser == InitDeser /\ [][NextDeser]_vars

-----------------------------------------------------------------------------
(* The vocabulary of the properties *)

Params == route.signature.parameters

\* make_args has returned its (args, kwargs) pair, or has raised
MadeArgs == "st" \in DOMAIN bound /\ bound.st = "return"
FailedArgs == "st" \in DOMAIN bound /\ bound.st = "raise"

\* the two mappings make_args was called with
route_args == RouteArgs(Router, request)
query_args == QueryArgs(Router, request)

BodyTyped(i) == is_any_serialization_annotation(Params[i].annotation)

Absent(i) == Params[i].name \notin (DOMAIN route_args \cup DOMAIN query_args)

Positionals == {i \in 1..Len(Params) : IsPositional(Params[i])}
PositionOf(i) == Cardinality({j \in Positionals : j <= i})
BodyIndex(i) == Cardinality({j \in 1..i : BodyTyped(j)})

\* the value make_args returned for parameter i
ValueOf(i) ==
    IF i \in Positionals THEN bound.args[PositionOf(i)]
    ELSE bound.kwargs[Params[i].name]

\* a wire string decoded by the route's argument deserializer
Decoded(text, annotation) ==
    from_json_value(ArgConfig(Router, route), text, annotation)

\* the value parameter i resolves to, or the error it raises
Expected(i) ==
    IF BodyTyped(i) THEN body_results[BodyIndex(i)]
    ELSE Resolve(Params[i], route_args, query_args, ArgConfig(Router, route))

\* parameter i was reached and resolved without an error
Resolved(i) ==
    IF BodyTyped(i)
    THEN BodyIndex(i) <= Len(body_results)
         /\ ~IsRaise(body_results[BodyIndex(i)])
    ELSE ~IsRaise(Expected(i))

\* parameter i is required and is found nowhere
Required(i) ==
    /\ ~BodyTyped(i)
    /\ ~is_optional_type(Params[i].annotation)
    /\ Absent(i)

KeyErrorNaming(i) == Raise("KeyError", <<VStr(Params[i].name)>>)

-----------------------------------------------------------------------------
(* Properties of make_args *)

\* C1: a parameter whose annotation is Optional, that declares a default and
\* that is absent from both the route matches and the query values, is
\* returned with the declared default, not None.
C1_DeclaredDefaultReturned ==
    MadeArgs =>
        \A i \in 1..Len(Params) :
            (/\ ~BodyTyped(i)
             /\ is_optional_type(Params[i].annotation)
             /\ Params[i].default # Empty
             /\ Absent(i))
            => ValueOf(i) = Params[i].default

\* C2, as stated: for every required parameter that is absent from both
\* mappings the call raises the KeyError naming that parameter.
C2_EveryMissingNamed ==
    (MadeArgs \/ FailedArgs) =>
        \A i \in 1..Len(Params) :
            Required(i) => FailedArgs /\ bound.error = KeyErrorNaming(i)

\* C2: for every parameter that is not body-typed, not Optional and absent
\* from both mappings, the call raises and returns no argument tuple (the
\* parameter is never defaulted); the error is the KeyError naming the
\* parameter when every parameter declared before it resolved.
C2_MissingRequiredRaises ==
    (MadeArgs \/ FailedArgs) =>
        \A i \in 1..Len(Params) :
            Required(i) =>
                /\ FailedArgs
                /\ (\A j \in 1..(i - 1) : Resolved(j))
                       => bound.error = KeyErrorNaming(i)

\* a required parameter after a resolved one is missing: KeyError names it
C2_Witness ==
    /\ FailedArgs
    /\ \E i \in 2..Len(Params) :
           /\ Required(i)
           /\ \A j \in 1..(i - 1) : Resolved(j)
           /\ bound.error = KeyErrorNaming(i)

\* C3: a name present in both the route matches and the query values is
\* resolved from the route match; the query value is used only when the name
\* is absent from the route matches, and the None of an Optional annotation
\* only when it is absent from both.
C3_RouteMatchFirst ==
    MadeArgs =>
        \A i \in 1..Len(Params) :
            ~BodyTyped(i) =>
                IF Params[i].name \in DOMAIN route_args
                THEN ValueOf(i) = Decoded(route_args[Params[i].name],
                                          Params[i].annotation)
                ELSE IF Params[i].name \in DOMAIN query_args
                THEN IF is_list(Params[i].annotation)
                     THEN ValueOf(i).t = "list"
                     ELSE ValueOf(i) = Decoded(query_args[Params[i].name][1],
                                               Params[i].annotation)
                ELSE ValueOf(i) = None

\* a name carried by both mappings, with different values
C3_Witness ==
    /\ MadeArgs
    /\ \E i \in 1..Len(Params) :
           /\ Params[i].name \in DOMAIN route_args \cap DOMAIN query_args
           /\ route_args[Params[i].name] # query_args[Params[i].name][1]
           /\ ValueOf(i) = Decoded(route_args[Params[i].name],
                                   Params[i].annotation)

\* C4: a parameter resolved from the query values is decoded element by
\* element against the element type when its annotation is a List type (same
\* length, same order), and otherwise from the first string of the list only.
C4_QueryDecoding ==
    MadeArgs =>
        \A i \in 1..Len(Params) :
            (/\ ~BodyTyped(i)
             /\ Params[i].name \notin DOMAIN route_args
             /\ Params[i].name \in DOMAIN query_args)
            => IF is_list(Params[i].annotation)
               THEN /\ ValueOf(i).t = "list"
                    /\ Len(ValueOf(i).items) = Len(query_args[Params[i].name])
                    /\ \A k \in 1..Len(query_args[Params[i].name]) :
                           ValueOf(i).items[k] =
                               Decoded(query_args[Params[i].name][k],
                                       get_args(Params[i].annotation)[1])
               ELSE ValueOf(i) = Decoded(query_args[Params[i].name][1],
                                         Params[i].annotation)

\* one request with a two-string list for a List parameter and a list whose
\* second string differs from the first for a scalar parameter
C4_Witness ==
    /\ MadeArgs
    /\ \E i \in 1..Len(Params) :
           /\ is_list(Params[i].annotation)
           /\ Absent(i) = FALSE
           /\ Params[i].name \notin DOMAIN route_args
           /\ Len(query_args[Params[i].name]) >= 2
           /\ query_args[Params[i].name][1] # query_args[Params[i].name][2]
    /\ \E i \in 1..Len(Params) :
           /\ ~is_list(Params[i].annotation)
           /\ ~BodyTyped(i)
           /\ Absent(i) = FALSE
           /\ Params[i].name \notin DOMAIN route_args
           /\ Len(query_args[Params[i].name]) >= 2
           /\ query_args[Params[i].name][1] # query_args[Params[i].name][2]

\* C5: each resolved value is in the positional tuple, in declaration order,
\* when the parameter is positional-only or positional-or-keyword, and
\* otherwise in the keyword mapping under the parameter's own name; no
\* parameter is in both.
C5_Placement ==
    MadeArgs =>
        /\ Len(bound.args) = Cardinality(Positionals)
        /\ \A i \in Positionals : bound.args[PositionOf(i)] = Expected(i)
        /\ DOMAIN bound.kwargs =
               {Params[i].name : i \in (1..Len(Params)) \ Positionals}
        /\ \A i \in (1..Len(Params)) \ Positionals :
               bound.kwargs[Params[i].name] = Expected(i)

\* two different positional values, and a keyword value whose wire name
\* differs from the parameter's name
C5_Witness ==
    /\ MadeArgs
    /\ Len(bound.args) = 2
    /\ bound.args[1] # bound.args[2]
    /\ \E name \in DOMAIN bound.kwargs :
           /\ camelcase(name) # name
           /\ camelcase(name) \in DOMAIN request.query

\* C6: during one make_args call the body reader is invoked at most once,
\* also when more than one parameter carries a serialization annotation.
C6_BodyReadAtMostOnce == body_reads <= 1

-----------------------------------------------------------------------------
(* Properties of rest_callback *)

\* the handler returned and _make_writer raised
SerializationFailed ==
    /\ pc = "done"
    /\ "k" \in DOMAIN handler_result
    /\ handler_result.k = "return"
    /\ IsRaise(_make_writer(Router, handler_result.value, accept.header,
                            route.signature.return_annotation,
                            Router.serializer_configs).writer)

\* C7: whenever make_args fails the response is 400 Bad Request and the user
\* handler is not invoked.
C7_FailedBindingIs400 ==
    FailedArgs =>
        /\ response = HttpResponse(BAD_REQUEST, "text/plain")
        /\ handler_calls = 0

\* C8: when binding and the handler succeed but serializing the returned
\* value fails, the response is 500 Internal Server Error.
C8_SerializationFailureIs500 ==
    SerializationFailed =>
        /\ "status" \in DOMAIN response
        /\ response.status = INTERNAL_SERVER_ERROR

-----------------------------------------------------------------------------
(* Properties of the engines *)

\* what the engine that ran makes of its input against one member type
MemberResult(member) ==
    CASE dz.engine = "typed_json" ->
             _from_json_value(dz.input, member, dz.wire,
                              DEFAULT_JSON_SERIALIZER_CONFIG)
      [] dz.engine = "coercion" -> coercion_from_json_value(dz.input, member)
      [] dz.engine = "xml" ->
             _to_obj(dz.input, member, dz.wire, DEFAULT_XML_SERIALIZER_CONFIG)
      [] dz.engine = "to_json" ->
             _from_value_to_json(dz.input, member, dz.wire,
                                 DEFAULT_JSON_SERIALIZER_CONFIG)

\* an engine ran against a Union that is not Optional
UnionCase ==
    /\ dz.phase = "done"
    /\ is_union_type(dz.annotation)
    /\ ~is_optional_type(dz.annotation)

\* C9: deserializing against a non-optional Union returns the result of the
\* first member, in declared order, whose decoding does not raise.
C9_FirstMemberWins ==
    (UnionCase /\ dz.engine \in {"typed_json", "coercion", "xml"}) =>
        \A i \in 1..Len(dz.annotation.args) :
            (/\ ~IsRaise(MemberResult(dz.annotation.args[i]))
             /\ \A j \in 1..(i - 1) :
                    IsRaise(MemberResult(dz.annotation.args[j])))
            => dz.result = MemberResult(dz.annotation.args[i])

\* Union[int, str] and the wire value "42": the integer 42
C9_Witness ==
    /\ UnionCase
    /\ dz.engine = "typed_json"
    /\ dz.annotation = TUnion(<<TInt, TStr>>)
    /\ dz.input = VStr(<<"4", "2">>)
    /\ dz.result = VInt(42)

\* C10: when every member type of a Union raises, the engine raises; it
\* returns no value.
C10_AllMembersFailRaises ==
    (/\ UnionCase
     /\ \A i \in 1..Len(dz.annotation.args) :
            IsRaise(MemberResult(dz.annotation.args[i])))
    => IsRaise(dz.result)

-----------------------------------------------------------------------------
(* Properties of typed records *)

\* a deserializer ran on a record: the typed JSON engine on a JSON object,
\* or the XML engine on a document
RecordCase ==
    /\ dz.phase = "done"
    /\ is_typed_dict(dz.annotation)
    /\ \/ dz.engine = "typed_json" /\ dz.input.t = "dict"
       \/ dz.engine = "xml"

Members == typed_dict_annotation(dz.annotation)

\* the type a member is declared with, metadata aside
DeclaredType(member) ==
    IF is_annotated_type(member.annotation) THEN member.annotation.args[1]
    ELSE member.annotation

\* a member the engine's schema rules admit: tagged, or not annotated
WellFormed(member) ==
    is_annotated_type(member.annotation)
        => "tag" \in DOMAIN member.annotation.metadata[1]

\* the external keys a member may go by: its tag, or its name under the
\* configured renamers
ExternalKeys(member) ==
    IF is_annotated_type(member.annotation)
    THEN {member.annotation.metadata[1].tag}
    ELSE {member.name, camelcase(member.name), snakecase(member.name)}

\* the wire node has none of the member's external keys
LacksKey(member) ==
    IF dz.engine = "typed_json"
    THEN ExternalKeys(member) \cap DOMAIN dz.input.d = {}
    ELSE \A key \in ExternalKeys(member) :
             IF member.annotation.metadata[1].cls = "XMLAttribute"
             THEN key \notin DOMAIN dz.input.attrib
             ELSE find(dz.input, key) = None

RequiredMember(member) ==
    /\ WellFormed(member)
    /\ ~is_optional_type(DeclaredType(member))
    /\ member.default = Empty

OptionalMember(member) ==
    /\ WellFormed(member)
    /\ is_optional_type(DeclaredType(member))
    /\ member.default = Empty

\* a KeyError that names one of the keys
NamesOneOf(result, keys) ==
    /\ IsRaise(result)
    /\ result.exc = "KeyError"
    /\ \E key \in keys :
           \/ result.args = <<VStr(key)>>
           \/ result = RequiredKeyMissing(key)

\* C11: deserializing a record from a wire node that lacks the external key
\* of a member that is not Optional and has no default raises; no record is
\* returned; when that member is the first one, the error names its key.
C11_MissingRequiredRaises ==
    RecordCase =>
        \A i \in 1..Len(Members) :
            (RequiredMember(Members[i]) /\ LacksKey(Members[i])) =>
                /\ IsRaise(dz.result)
                /\ (i = 1 =>
                        NamesOneOf(dz.result, ExternalKeys(Members[i])))

\* C12: deserializing a record from a wire node that lacks the external key
\* of an Optional member does not fail for that key, and the record that is
\* returned holds None for the member; for JSON objects, XML attributes and
\* XML child elements alike.
C12_MissingOptionalIsNone ==
    RecordCase =>
        \A i \in 1..Len(Members) :
            (OptionalMember(Members[i]) /\ LacksKey(Members[i])) =>
                /\ ~NamesOneOf(dz.result, ExternalKeys(Members[i]))
                /\ ~IsRaise(dz.result) =>
                       dz.result.d[Members[i].name] = None

-----------------------------------------------------------------------------
(* Properties of Optional *)

\* a JSON deserializer ran against Optional[T]
OptionalCase ==
    /\ dz.phase = "done"
    /\ dz.engine \in {"typed_json", "coercion"}
    /\ is_union_type(dz.annotation)
    /\ Len(dz.annotation.args) = 2
    /\ dz.annotation.args[2] = NoneType

\* the wire values that stand for "no value": None, "", [] and {}
EmptyWireValue(value) ==
    value \in {None, VStr(<<>>), VList(<<>>), VDict(<<>>)}

\* C13: against Optional[T] a JSON deserializer yields None for None, the
\* empty string and an empty container only; any other wire value, 0 and
\* false included, is decoded against T, and what comes out is not None.
C13_OptionalEmptiness ==
    OptionalCase =>
        IF EmptyWireValue(dz.input) THEN dz.result = None
        ELSE /\ dz.result = MemberResult(dz.annotation.args[1])
             /\ dz.result # None

-----------------------------------------------------------------------------
(* Properties of serialize and deserialize together *)

\* a value was serialized under a root annotation that carries the root
\* marker, and the text was read back
RoundTripCase ==
    /\ dz.phase = "done"
    /\ \/ /\ dz.engine = "json_round_trip"
          /\ dz.annotation.metadata[1].cls = "JSONValue"
       \/ /\ dz.engine = "xml_round_trip"
          /\ dz.annotation.metadata[1].cls = "XMLEntity"

\* C14: for a typed record T with optional, union, list and nested members
\* and every value v of T, deserialize(serialize(v, T, config), T, config)
\* is v.
C14_RoundTrip ==
    RoundTripCase => dz.result = dz.input

\* a typed JSON engine ran on a typed dict, alone or in a round trip
JsonRecordCase ==
    /\ dz.phase = "done"
    /\ \/ dz.engine = "typed_json" /\ is_typed_dict(dz.annotation)
       \/ dz.engine = "json_round_trip"

\* the typed dict it ran on
JsonRecord ==
    IF dz.engine = "json_round_trip" THEN dz.annotation.args[1]
    ELSE dz.annotation

\* C15: for every member of a record the serializer and the deserializer
\* compute the same external wire key: the tag of the member's metadata, or
\* else a renaming of the member's name that is the same in both directions.
C15_SameExternalKey ==
    JsonRecordCase =>
        \A i \in 1..Len(JsonRecord.members) :
            WellFormed(JsonRecord.members[i]) =>
                ToJsonProperty(JsonRecord.members[i],
                               MemberItem(JsonRecord.members[i], Unbound),
                               DEFAULT_JSON_SERIALIZER_CONFIG).tag
                    = MemberProperty(JsonRecord.members[i],
                                     MemberItem(JsonRecord.members[i], Unbound),
                                     DEFAULT_JSON_SERIALIZER_CONFIG).tag

\* one of the five entry points ran
RootCase ==
    /\ dz.phase = "done"
    /\ dz.engine \in {"serialize", "deserialize", "from_json_value",
                      "xml_serialize", "xml_deserialize"}

RootMarker ==
    IF dz.engine \in {"xml_serialize", "xml_deserialize"} THEN "XMLEntity"
    ELSE "JSONValue"

\* the top-level annotation carries metadata that is not the root marker
WrongRoot ==
    /\ is_annotated_type(dz.annotation)
    /\ dz.annotation.metadata[1].cls # RootMarker

\* the error of the root check, whatever was to be written or read
SchemaError == IsRaise(dz.result) /\ dz.result.exc = "TypeError"

LacksRootMarker ==
    /\ route # Pending
    /\ ~(/\ is_annotated_type(route.signature.return_annotation)
         /\ route.signature.return_annotation.metadata[1].cls
                \in {"JSONValue", "XMLEntity"})

\* the root check of a serializer failed inside rest_callback
SchemaErrorInRequest ==
    /\ response # Pending
    /\ response.k = "raise"
    /\ response.error.exc = "TypeError"
    /\ response.error.args
           = <<Msg("Expected the root value to have a root annotation")>>

\* C17: a callback whose return annotation lacks the root marker is turned
\* down by add_rest, so no request ever reaches it, and no request ends in
\* the schema error of a serializer's root check.
C17_RejectedAtRegistration ==
    /\ LacksRootMarker => request = Pending
    /\ ~SchemaErrorInRequest

\* the XML deserializer ran on a record whose one member is a list, and the
\* element of that member is there
ListCase ==
    /\ dz.phase = "done"
    /\ dz.engine = "xml"
    /\ dz.annotation \in {XmlSiblings, XmlNested, XmlItems}
    /\ find(dz.input, dz.annotation.members[1].annotation.metadata[1].tag) # None

ListTag == dz.annotation.members[1].annotation.metadata[1]

ItemTag == dz.annotation.members[1].annotation.args[1].args[1].metadata[1]

ListNode == find(dz.input, ListTag.tag)

\* C18: a list whose items carry the list's own tag is read from the
\* same-tag children of the parent of the current node; a list whose items
\* carry another tag is read from the children of the wrapper that carry
\* the item tag, and from nothing deeper.
C18_ListElements ==
    ListCase =>
        ListElements(ListNode, ListTag, ItemTag)
            = IF ListTag.tag = ItemTag.tag
              THEN WithTag(ChildrenOf(dz.input), ItemTag.tag)
              ELSE WithTag(ChildrenOf(ListNode), ItemTag.tag)

\* a timestamp was written as text and the text read back
TimestampCase == dz.phase = "done" /\ dz.engine = "datetime_round_trip"

\* C19: a timestamp of millisecond precision, naive or with an offset of
\* whole minutes, comes back from its own text as the timestamp it was.
C19_TimestampRoundTrip == TimestampCase => dz.result = dz.input

\* a text with a fraction of three digits and a zone was read as a timestamp
\* and the timestamp written back
ProfileCase ==
    /\ dz.phase = "done"
    /\ dz.engine = "text_round_trip"
    /\ dz.input.t = "str"
    /\ (\/ PatternMatches(DATETIME_FORMATS[2], dz.input.s)
        \/ PatternMatches(DATETIME_FORMATS[4], dz.input.s))
    /\ DigitRun(dz.input.s, 21) = 3
    /\ ~IsRaise(dz.wire)

\* C20: the text of a timestamp with three fraction digits and a Z or
\* +HH:MM / -HH:MM zone comes back from its own timestamp character for
\* character.
C20_TextRoundTrip == ProfileCase => dz.result = dz.input

\* a member typed datetime was decoded from a text
TimestampFieldCase ==
    /\ dz.phase = "done"
    /\ dz.engine \in {"json_timestamp", "xml_timestamp"}
    /\ dz.input.t = "str"

\* the text matches none of the accepted formats
OutsideProfile ==
    \A i \in 1..Len(DATETIME_FORMATS) :
        ~PatternMatches(DATETIME_FORMATS[i], dz.input.s)

\* C21: a datetime member whose text matches none of the accepted formats
\* makes the JSON and the XML deserializer raise; no record comes back.
C21_OutsideProfileRaises ==
    (TimestampFieldCase /\ OutsideProfile) => IsRaise(dz.result)

\* C22: whatever the order in which two calls of a route take their turns at
\* the body read, each call's make_args ends with the (args, kwargs) or the
\* error it ends with when it runs alone on the same request and bodies, and
\* no step of either call changes the route (signature, annotations,
\* configuration) the other one sees.
C22_Reentrant ==
    /\ [](\A i \in DOMAIN tasks.of :
              tasks.of[i].pc = "done" =>
                  tasks.of[i].bound = Alone(route, tasks.of[i].request,
                                            tasks.of[i].body_results))
    /\ [][route # Pending => route' = route]_vars

\* both calls returned, the second having started and finished its first
\* body read while the first was suspended
C22_Witness ==
    /\ tasks.log = <<1, 2, 2, 1, 1, 2>>
    /\ \A i \in DOMAIN tasks.of :
           /\ tasks.of[i].pc = "done"
           /\ tasks.of[i].bound.st = "return"
           /\ tasks.of[i].bound.kwargs[NameBC].of = i

\* the renamer the engine of the state applies to keys
RenameCase == dz.phase = "done" /\ dz.engine \in {"camelize_object", "underscore_object"}

RenamerOf(engine) ==
    IF engine = "camelize_object" THEN "_camelize" ELSE "_underscore"

\* renamed is obj with every string key renamed, and all else as it was
RECURSIVE KeysRenamed(_, _, _)
KeysRenamed(obj, renamed, rename) ==
    IF IsRaise(renamed) THEN FALSE
    ELSE IF obj.t = "dict"
    THEN /\ renamed.t = "dict"
         /\ Len(renamed.items) = Len(obj.items)
         /\ \A i \in 1..Len(obj.items) :
                /\ renamed.items[i].key = CallRename(rename, obj.items[i].key)
                /\ KeysRenamed(obj.items[i].value, renamed.items[i].value, rename)
    ELSE IF obj.t = "list"
    THEN /\ renamed.t = "list"
         /\ Len(renamed.items) = Len(obj.items)
         /\ \A i \in 1..Len(obj.items) :
                KeysRenamed(obj.items[i], renamed.items[i], rename)
    ELSE renamed = obj

\* lower-case words of letters and digits joined by single underscores
IsSnakeCase(s) ==
    /\ s # <<>>
    /\ s[1] \in Lowers
    /\ s[Len(s)] # "_"
    /\ \A i \in 1..Len(s) : s[i] \in Lowers \cup Digits \cup {"_"}
    /\ \A i \in 1..(Len(s) - 1) : ~(s[i] = "_" /\ s[i + 1] = "_")

RECURSIVE SnakeKeys(_)
SnakeKeys(obj) ==
    IF obj.t = "dict"
    THEN \A i \in 1..Len(obj.items) :
            /\ obj.items[i].key.t = "str" => IsSnakeCase(obj.items[i].key.s)
            /\ SnakeKeys(obj.items[i].value)
    ELSE IF obj.t = "list"
    THEN \A i \in 1..Len(obj.items) : SnakeKeys(obj.items[i])
    ELSE TRUE

\* C23: camelize_object and underscore_object rename every string key at
\* every depth and leave values, list order and other keys as they were, and
\* underscore_object undoes camelize_object on objects with snake_case keys.
C23_RenameRoundTrip ==
    RenameCase =>
        /\ KeysRenamed(dz.input, dz.wire, RenamerOf(dz.engine))
        /\ (dz.engine = "camelize_object" /\ SnakeKeys(dz.input))
               => PyEq(dz.result, dz.input)

ErrorsCase == dz.phase = "done" /\ dz.engine = "gather_error_responses"

\* the description starts with an integer code followed by a comma
HasLeadingCode(description) ==
    /\ partition(description, ",")[2] # <<>>
    /\ ~IsRaise(PyInt(strip(partition(description, ",")[1])))

\* the entry is one of the REST error type with a code
DocumentsError(raises) ==
    raises.type_name = "RestError" /\ HasLeadingCode(raises.description)

\* item is what the docstring entry raises documents
ResponseOf(raises, item) ==
    /\ item.key = PyInt(strip(partition(raises.description, ",")[1]))
    /\ item.value = strip(partition(raises.description, ",")[3])

\* C24: gather_error_responses has an entry code -> description for every
\* raises entry "RestError: <code>, <text>" of the docstring, and no entry
\* that comes from a raises entry of another type or without a leading code.
C24_RestErrorsGathered ==
    ErrorsCase =>
        /\ \A i \in 1..Len(dz.input) :
               DocumentsError(dz.input[i]) =>
                   \E k \in 1..Len(dz.result.items) :
                       dz.result.items[k].key = PyInt(strip(partition(
                           dz.input[i].description, ",")[1]))
        /\ \A k \in 1..Len(dz.result.items) :
               \E i \in 1..Len(dz.input) :
                   /\ DocumentsError(dz.input[i])
                   /\ ResponseOf(dz.input[i], dz.result.items[k])

\* binding and the handler succeeded and rest_callback is over
NegotiationCase == pc = "done" /\ handler_result.k = "return"

\* Accept is there and holds neither a media type of the route nor */*
Unacceptable(produces, accept_header) ==
    /\ accept_header # {}
    /\ \A i \in 1..Len(produces) : produces[i] \notin accept_header
    /\ "*/*" \notin accept_header

\* the first entry of produces that is in Accept, else the first entry
Preferred(produces, accept_header) ==
    IF \E i \in 1..Len(produces) : produces[i] \in accept_header
    THEN produces[CHOOSE i \in 1..Len(produces) :
             /\ produces[i] \in accept_header
             /\ \A j \in 1..(i - 1) : produces[j] \notin accept_header]
    ELSE produces[1]

\* C25: once binding and the handler have succeeded, the response is 415
\* exactly when Accept is non-empty and holds neither a produces entry of the
\* route nor */*; otherwise it has the route's status_code and as content
\* type the first produces entry found in Accept, or produces[0].
C25_Negotiated ==
    NegotiationCase =>
        /\ response.k = "http"
        /\ IF Unacceptable(route.produces, accept.header)
           THEN response.status = UNSUPPORTED_MEDIA_TYPE
           ELSE /\ response.status = route.status_code
                /\ response.content_type = Preferred(route.produces, accept.header)

\* make_args returned: binding succeeded
BindingSucceeded == bound # Pending /\ bound.st = "return"

\* C26: after binding succeeds the handler is invoked exactly once (and it
\* is not invoked otherwise); when it raises RestError the response has the
\* error's status and message, when it raises anything else the response is
\* 500, and in both cases no serializer was invoked for the request.
C26_HandlerErrors ==
    /\ handler_calls = IF BindingSucceeded THEN 1 ELSE 0
    /\ handler_result.k = "raise" =>
           /\ serializer_calls = 0
           /\ response.k = "http"
           /\ IF handler_result.error.exc = "RestError"
              THEN /\ response.status = handler_result.error.status
                   /\ response.text = handler_result.error.message
              ELSE response.status = INTERNAL_SERVER_ERROR

\* the handler raised RestError(404, "Not Found") and the request was answered
C26_Witness ==
    /\ pc = "done"
    /\ handler_calls = 1
    /\ handler_result.k = "raise"
    /\ handler_result.error.exc = "RestError"
    /\ response = TextResponse(404, Msg("Not Found"))

\* a response whose body a serializer wrote
SerializedCase ==
    /\ pc = "done"
    /\ response.k = "http"
    /\ "writer" \in DOMAIN response
    /\ response.writer # None

\* C27: the media type in the content-type header of a response is the media
\* type of the serializer that wrote its body.
C27_HeaderIsSerializer ==
    SerializedCase => response.writer.media_type = response.content_type

\* a request to a route registered with its own arg_serializer_config has
\* been bound, or has failed to
OverrideCase ==
    /\ route # Pending
    /\ route.arg_serializer_config # None
    /\ bound # Pending

\* make_args on the keys renamed by config, for a route without body
BoundWith(config, r, req) ==
    AwaitBody(r.method,
              make_args(r.signature,
                        RenameKeys(req.matches, config.deserialize_key),
                        RenameKeys(req.query, config.deserialize_key),
                        [NoFrame EXCEPT !.idx = 1], config))

SameOutcome(b, out) ==
    /\ b.st = out.st
    /\ IF b.st = "return" THEN b.args = out.args /\ b.kwargs = out.kwargs
       ELSE b.error = out.error

\* C28: the callback of a route registered with its own
\* arg_serializer_config binds the request as make_args does when the
\* route-match and query keys are renamed, and the argument deserializer is
\* built, with that configuration.
C28_RouteConfigUsed ==
    OverrideCase =>
        SameOutcome(bound, BoundWith(route.arg_serializer_config, route, request))

\* from_json_value returned a record for a JSON object
RecordDecoded ==
    /\ dz.phase = "done"
    /\ dz.engine = "typed_json"
    /\ dz.annotation.k = "TypedDict"
    /\ dz.input.t = "dict"
    /\ ~IsRaise(dz.result)

\* the type a member declares, and the key it is read from
OwnType(member) ==
    IF is_annotated_type(member.annotation) THEN member.annotation.args[1]
    ELSE member.annotation

OwnTag(member, config) ==
    IF is_annotated_type(member.annotation)
    THEN member.annotation.metadata[1].tag
    ELSE Rename(config.deserialize_key, member.name)

\* C29: every member of a typed record is converted against its own type
\* annotation, whatever members precede it: the value the JSON engine
\* returns for a member is what the member's own type makes of its wire value.
C29_OwnAnnotation ==
    RecordDecoded =>
        \A i \in 1..Len(dz.annotation.members) :
            OwnTag(dz.annotation.members[i], DEFAULT_JSON_SERIALIZER_CONFIG)
                    \in DOMAIN dz.input.d =>
                dz.result.d[dz.annotation.members[i].name] =
                    _from_json_value(
                        dz.input.d[OwnTag(dz.annotation.members[i],
                                          DEFAULT_JSON_SERIALIZER_CONFIG)],
                        OwnType(dz.annotation.members[i]),
                        JSONProperty(OwnTag(dz.annotation.members[i],
                                            DEFAULT_JSON_SERIALIZER_CONFIG)),
                        DEFAULT_JSON_SERIALIZER_CONFIG)

\* the request task was cancelled while make_args awaited the body
CancelledInBodyRead ==
    /\ body_results # <<>>
    /\ body_results[Len(body_results)] = CancelledError

\* C30: a cancellation that arrives during the body read of argument binding
\* leaves rest_callback as the CancelledError it is; no 400 response is
\* returned and the handler is not invoked.
C30_CancellationPropagates ==
    CancelledInBodyRead =>
        /\ response = Escapes(CancelledError)
        /\ handler_calls = 0

=============================================================================
